---- MODULE Spec2Model ----
(***************************************************************************)
(* Admin backend for job postings and the applicant pipeline.              *)
(*                                                                         *)
(* The state is the relational store (job_posts, job_application_forms,    *)
(* applicants, shortlisted_candidates), the resume files on disk and the   *)
(* HTTP requests in flight.  A handler that awaits the database between    *)
(* statements is one action per awaited statement; a handler whose         *)
(* statements all run inside one transaction without a preceding read is   *)
(* one action, taken at its commit (or at its rollback).                   *)
(***************************************************************************)
EXTENDS Integers, Sequences, FiniteSets, TLC

(* ------------------------------ bounds -------------------------------- *)
\* ids handed out by AUTO_INCREMENT of job_posts over a run
MaxJobs == 2
\* ids handed out by AUTO_INCREMENT of applicants over a run
MaxApplicants == 2
\* resume files multer writes over a run
MaxFiles == 3
\* requests that may be in flight at once
NumProcs == 2

Procs == 1..NumProcs
JobIds == 1..MaxJobs
ApplicantIds == 1..MaxApplicants

(* --------------------------- JavaScript values ------------------------ *)
\* A request body field is a JS value: undefined (the field is absent), a
\* string, an object or an array.  v tells the values of one type apart;
\* the string with v = 0 is "", the object with v = 0 is {}, the array with
\* v = 0 is [].
Undefined == [t |-> "undefined", v |-> 0]
Str(k) == [t |-> "string", v |-> k]
Obj(k) == [t |-> "object", v |-> k]
Arr(k) == [t |-> "array", v |-> k]

\* JS truthiness, as used by `x ? a : b`, `x || y` and `!x`
Truthy(x) == ~(x.t = "undefined" \/ (x.t = "string" /\ x.v = 0))

\* JS `x || y`
OrElse(x, y) == IF Truthy(x) THEN x ELSE y

\* JSON.stringify on the values above: the JSON text stored in a JSON column
JSON_stringify(x) ==
  CASE x = Obj(0) -> "{}"
    [] x = Obj(1) -> "{\"department\":\"Eng\"}"
    [] x = Obj(2) -> "{\"department\":\"Ops\"}"
    [] x = Arr(0) -> "[]"
    [] x = Arr(1) -> "[{\"name\":\"email\"}]"
    [] x = Arr(2) -> "[{\"name\":\"phone\"}]"
    [] x = Str(0) -> "\"\""
    [] x = Str(1) -> "\"a\""
    [] x = Str(2) -> "\"b\""
    [] OTHER -> "null"

\* JSON.parse on the texts above; "SyntaxError" stands for the exception
JSON_parse(s) ==
  CASE s = "{}" -> Obj(0)
    [] s = "{\"department\":\"Eng\"}" -> Obj(1)
    [] s = "{\"department\":\"Ops\"}" -> Obj(2)
    [] s = "[]" -> Arr(0)
    [] s = "[{\"name\":\"email\"}]" -> Arr(1)
    [] s = "[{\"name\":\"phone\"}]" -> Arr(2)
    [] s = "\"\"" -> Str(0)
    [] s = "\"a\"" -> Str(1)
    [] s = "\"b\"" -> Str(2)
    [] OTHER -> [t |-> "SyntaxError", v |-> 0]

(* ------------------------------- state -------------------------------- *)
VARIABLES
  contactCols,            \* the applicants table has full_name, email, phone, steps_json, fields_json
  job_posts,              \* id -> row of job_posts
  nextJobId,              \* AUTO_INCREMENT of job_posts
  job_application_forms,  \* id -> row of job_application_forms
  nextFormId,             \* AUTO_INCREMENT of job_application_forms
  applicants,             \* id -> row of applicants
  nextApplicantId,        \* AUTO_INCREMENT of applicants
  shortlisted_candidates, \* id -> row of shortlisted_candidates
  nextShortlistId,        \* AUTO_INCREMENT of shortlisted_candidates
  files,                  \* the resume files present under uploads/resumes
  nextFile,               \* the next file name multer generates
  checkedOut,             \* the connections checked out of the pool
  outbox,                 \* the payloads written to graph.facebook.com, in order
  req,                    \* per request slot: the request in flight and its locals
  last,                   \* the response sent last
  admin_users,            \* id -> row of admin_users
  nextAdminId,            \* AUTO_INCREMENT of admin_users
  now,                    \* the clock jsonwebtoken reads, in days
  held                    \* the token the client keeps from its login

store == <<job_posts, nextJobId, job_application_forms, nextFormId,
           applicants, nextApplicantId, shortlisted_candidates, nextShortlistId>>
disk == <<files, nextFile>>
accounts == <<admin_users, nextAdminId>>
vars == <<contactCols, store, disk, req, last, accounts, now, checkedOut, outbox, held>>

\* connectionLimit: 10; with waitForConnections a getConnection waits while
\* that many connections are checked out
connectionLimit == 10

Idle == [op |-> "idle"]

\* The slots are interchangeable: a new request takes the lowest idle one.
FreeSlot(p) == req[p] = Idle /\ \A q \in 1..(p - 1) : req[q] # Idle

\* res.status(code).json(...): the response of operation op (id: the :id of
\* the route or the id the response carries, 0 where there is none)
Respond(op, code, id) ==
  last' = [op |-> op, status |-> code]

(* -------------------------- rows and lookups -------------------------- *)
\* SELECT ... FROM job_posts WHERE slug = s (the UNIQUE index on slug)
JobsWithSlug(jobs, s) == {j \in DOMAIN jobs : jobs[j].slug = s}

\* SELECT ... FROM job_application_forms WHERE job_post_id = j
FormsOf(forms, j) == {f \in DOMAIN forms : forms[f].job_post_id = j}

\* SELECT ... FROM applicants WHERE job_id = j
ApplicantsOf(apps, j) == {a \in DOMAIN apps : apps[a].job_id = j}

\* SELECT id FROM shortlisted_candidates WHERE applicant_id = a
\* no entry is found for the applicant
EntriesOf_None(sc, a) == {}

EntriesOf(sc, a) == {e \in DOMAIN sc : sc[e].applicant_id = a}

\* SELECT id FROM shortlisted_candidates WHERE job_post_id = j
EntriesOfJob(sc, j) == {e \in DOMAIN sc : sc[e].job_post_id = j}

\* f restricted to the keys in S
Restrict(f, S) == [x \in S |-> f[x]]

\* f with key k bound to row r
Put(f, k, r) == [x \in DOMAIN f \cup {k} |-> IF x = k THEN r ELSE f[x]]

\* the text a VARCHAR column holds for a JS string parameter
StrText(x) == CASE x.v = 0 -> "" [] x.v = 1 -> "a" [] OTHER -> "b"

\* no rows
NoRows == [x \in {} |-> 0]

(* ------------------------------ POST /add-job ------------------------- *)
\* the row INSERT INTO job_posts writes
AddJobRow(title, slug, details, description) ==
  [job_title |-> StrText(title),
   slug |-> StrText(slug),
   details |-> JSON_stringify(OrElse(details, Obj(0))),
   description |-> JSON_stringify(OrElse(description, Obj(0)))]

\* const formSchemaToStore = applicationFormSchema || applicationForm || {}
formSchemaToStore(applicationFormSchema, applicationForm) ==
  OrElse(applicationFormSchema, OrElse(applicationForm, Obj(0)))

\* applicationFormSchema of the 201 response: formSchemaToStore
AddJobResponseSchema(applicationFormSchema, applicationForm) ==
  formSchemaToStore(applicationFormSchema, applicationForm)

\* the row INSERT INTO job_application_forms writes
AddFormRow(jobId, basicFormSchema, applicationFormSchema, applicationForm) ==
  [job_post_id |-> jobId,
   basicFormSchema |-> JSON_stringify(OrElse(basicFormSchema, Arr(0))),
   applicationFormSchema |->
     JSON_stringify(formSchemaToStore(applicationFormSchema, applicationForm))]

\* job_application_forms after the second INSERT of the transaction
FormsAfterAddJob(forms, formId, row) == Put(forms, formId, row)

\* The handler's transaction: validation, INSERT job_posts (the UNIQUE index
\* on slug raises ER_DUP_ENTRY), INSERT job_application_forms, commit.
AddJob(title, slug, details, description, basicFormSchema, applicationForm, applicationFormSchema) ==
  /\ nextJobId <= MaxJobs
  /\ checkedOut < connectionLimit
  /\ IF ~Truthy(title) \/ ~Truthy(slug)
       THEN /\ Respond("addJob", 400, 0)
            /\ UNCHANGED store
       ELSE IF JobsWithSlug(job_posts, StrText(slug)) # {}
         THEN /\ Respond("addJob", 500, 0)
              /\ UNCHANGED store
         ELSE /\ job_posts' = Put(job_posts, nextJobId,
                                  AddJobRow(title, slug, details, description))
              /\ nextJobId' = nextJobId + 1
              /\ job_application_forms' =
                   FormsAfterAddJob(job_application_forms, nextFormId,
                     AddFormRow(nextJobId, basicFormSchema,
                                applicationFormSchema, applicationForm))
              /\ nextFormId' = nextFormId + 1
              /\ Respond("addJob", 201, nextJobId)
              /\ UNCHANGED <<applicants, nextApplicantId,
                             shortlisted_candidates, nextShortlistId>>
  /\ UNCHANGED <<held, contactCols, outbox, checkedOut, accounts, now, disk, req>>

(* ----------------------------- PATCH /jobs/:id ------------------------ *)
\* 1: SELECT * FROM job_posts WHERE id = ?  (inside the transaction)
PatchJobSelect(p, id) ==
  /\ FreeSlot(p)
  /\ checkedOut < connectionLimit
  /\ IF id \notin DOMAIN job_posts
       THEN /\ Respond("patchJob", 404, id)
            /\ UNCHANGED <<req, checkedOut>>
       ELSE /\ req' = [req EXCEPT ![p] =
                 [op |-> "patchJob", id |-> id, existing |-> job_posts[id]]]
            /\ UNCHANGED last
            /\ checkedOut' = checkedOut + 1
  /\ UNCHANGED <<held, contactCols, outbox, accounts, now, store, disk>>

\* every column is written from the body, as POST /add-job writes it
UpdatedJobRow_Replace(existing, title, slug, details, description) ==
  AddJobRow(title, slug, details, description)

\* 2: the values the handler prepares from the body and the row it read
UpdatedJobRow(existing, title, slug, details, description) ==
  [job_title |-> IF title = Undefined
                   THEN existing.job_title ELSE StrText(title),
   slug |-> IF slug = Undefined THEN existing.slug ELSE StrText(slug),
   details |-> IF Truthy(details)
                 THEN JSON_stringify(details) ELSE existing.details,
   description |-> IF Truthy(description)
                     THEN JSON_stringify(description) ELSE existing.description]

\* the form row is left as it was
FormsAfterPatchJob_KeepPrior(forms, id, basicFormSchema, applicationFormSchema, applicationForm) == forms

\* 4: UPDATE job_application_forms SET ... WHERE job_post_id = ?
FormsAfterPatchJob(forms, id, basicFormSchema, applicationFormSchema, applicationForm) ==
  [f \in DOMAIN forms |->
     IF forms[f].job_post_id = id
       THEN [forms[f] EXCEPT
               !.basicFormSchema = JSON_stringify(OrElse(basicFormSchema, Arr(0))),
               !.applicationFormSchema =
                  JSON_stringify(OrElse(OrElse(applicationFormSchema,
                                               applicationForm), Obj(0)))]
       ELSE forms[f]]

\* applicationFormSchema of the 200 response: applicationFormSchema || {}
PatchJobResponseSchema(applicationFormSchema, applicationForm) ==
  OrElse(applicationFormSchema, Obj(0))

\* 3, 4 and the commit: UPDATE job_posts (ER_DUP_ENTRY on slug rolls back),
\* UPDATE job_application_forms, commit
PatchJobUpdate(p, title, slug, details, description, basicFormSchema, applicationFormSchema, applicationForm) ==
  /\ req[p].op = "patchJob"
  /\ LET id == req[p].id
         row == UpdatedJobRow(req[p].existing, title, slug, details, description)
     IN IF id \in DOMAIN job_posts
           /\ JobsWithSlug(job_posts, row.slug) \ {id} # {}
          THEN /\ Respond("patchJob", 500, id)
               /\ UNCHANGED store
          ELSE /\ job_posts' = IF id \in DOMAIN job_posts
                                 THEN [job_posts EXCEPT ![id] = row]
                                 ELSE job_posts
               /\ job_application_forms' =
                    FormsAfterPatchJob(job_application_forms, id, basicFormSchema,
                                       applicationFormSchema, applicationForm)
               /\ Respond("patchJob", 200, id)
               /\ UNCHANGED <<nextJobId, nextFormId, applicants, nextApplicantId,
                              shortlisted_candidates, nextShortlistId>>
  /\ req' = [req EXCEPT ![p] = Idle]
  /\ checkedOut' = checkedOut - 1
  /\ UNCHANGED <<held, contactCols, outbox, accounts, now, disk>>

(* ---------------------------- DELETE /jobs/:id ------------------------ *)
\* the foreign key does not cascade
FormsAfterJobDelete_NoCascade(forms, id) == forms

\* ON DELETE CASCADE of job_application_forms.job_post_id
FormsAfterJobDelete(forms, id) ==
  Restrict(forms, DOMAIN forms \ FormsOf(forms, id))

\* the foreign key does not cascade
ApplicantsAfterJobDelete_NoCascade(apps, id) == apps

\* ON DELETE CASCADE of applicants.job_id
ApplicantsAfterJobDelete(apps, id) ==
  Restrict(apps, DOMAIN apps \ ApplicantsOf(apps, id))

\* the foreign keys of shortlisted_candidates do not cascade
EntriesAfterJobDelete_NoCascade(sc, apps, id) == sc

\* ON DELETE CASCADE of shortlisted_candidates.job_post_id and, through the
\* applicants removed, of shortlisted_candidates.applicant_id
EntriesAfterJobDelete(sc, apps, id) ==
  Restrict(sc, {e \in DOMAIN sc :
                  /\ sc[e].job_post_id # id
                  /\ sc[e].applicant_id \notin ApplicantsOf(apps, id)})

\* SELECT id, uuid, job_title FROM job_posts WHERE id = ?
DeleteJobSelect(p, id) ==
  /\ FreeSlot(p)
  /\ IF id \notin DOMAIN job_posts
       THEN /\ Respond("deleteJob", 404, id)
            /\ UNCHANGED req
       ELSE /\ req' = [req EXCEPT ![p] = [op |-> "deleteJob", id |-> id]]
            /\ UNCHANGED last
  /\ UNCHANGED <<held, contactCols, outbox, checkedOut, accounts, now, store, disk>>

\* DELETE FROM job_posts WHERE id = ?  (affectedRows = 0 answers 404)
DeleteJobDelete(p) ==
  /\ req[p].op = "deleteJob"
  /\ LET id == req[p].id
     IN IF id \notin DOMAIN job_posts
          THEN /\ Respond("deleteJob", 404, id)
               /\ UNCHANGED store
          ELSE /\ job_posts' = Restrict(job_posts, DOMAIN job_posts \ {id})
               /\ job_application_forms' =
                    FormsAfterJobDelete(job_application_forms, id)
               /\ applicants' = ApplicantsAfterJobDelete(applicants, id)
               /\ shortlisted_candidates' =
                    EntriesAfterJobDelete(shortlisted_candidates, applicants, id)
               /\ Respond("deleteJob", 200, id)
               /\ UNCHANGED <<nextJobId, nextFormId, nextApplicantId,
                              nextShortlistId>>
  /\ req' = [req EXCEPT ![p] = Idle]
  /\ UNCHANGED <<held, contactCols, outbox, checkedOut, accounts, now, disk>>

(* ------------- a later statement of a job transaction fails ----------- *)
\* the statements ran on the pool with autocommit: what was written stays
RowsAfterRollback_Autocommit(before, written) == written

\* catch: await connection.rollback(): the table holds the rows it held at
\* beginTransaction, not the rows the transaction had written
RowsAfterRollback(before, written) == before

\* POST /add-job: INSERT INTO job_application_forms raises (lost connection,
\* lock wait timeout) after INSERT INTO job_posts has run
AddJobFormInsertFails(title, slug, details, description) ==
  /\ nextJobId <= MaxJobs
  /\ checkedOut < connectionLimit
  /\ Truthy(title) /\ Truthy(slug)
  /\ JobsWithSlug(job_posts, StrText(slug)) = {}
  /\ job_posts' =
       RowsAfterRollback(job_posts,
                         Put(job_posts, nextJobId,
                             AddJobRow(title, slug, details, description)))
  /\ Respond("addJob", 500, 0)
  /\ UNCHANGED <<nextJobId, job_application_forms, nextFormId, applicants,
                 nextApplicantId, shortlisted_candidates, nextShortlistId>>
  /\ UNCHANGED <<held, contactCols, outbox, checkedOut, accounts, now, disk, req>>

\* PATCH /jobs/:id: UPDATE job_application_forms raises after UPDATE job_posts
\* has run
PatchJobFormUpdateFails(p, title, slug, details, description) ==
  /\ req[p].op = "patchJob"
  /\ LET id == req[p].id
         row == UpdatedJobRow(req[p].existing, title, slug, details, description)
     IN /\ id \in DOMAIN job_posts
        /\ JobsWithSlug(job_posts, row.slug) \ {id} = {}
        /\ job_posts' =
             RowsAfterRollback(job_posts, [job_posts EXCEPT ![id] = row])
        /\ Respond("patchJob", 500, id)
  /\ req' = [req EXCEPT ![p] = Idle]
  /\ UNCHANGED <<nextJobId, job_application_forms, nextFormId, applicants,
                 nextApplicantId, shortlisted_candidates, nextShortlistId>>
  /\ checkedOut' = checkedOut - 1
  /\ UNCHANGED <<held, contactCols, outbox, accounts, now, disk>>

(* ----------------------------- POST /applicants ---------------------- *)
\* a multipart text field that was not sent, and SQL NULL
Absent == "<absent>"
NULL == "<null>"

\* basicFormData as sent: a JSON text (or a text that is no JSON)
BasicLabels == "[{\"label\":\"Full Name\",\"value\":\"Jo\"},{\"label\":\"Email\",\"value\":\"jo@x.com\"}]"
BasicNames == "[{\"name\":\"fullName\",\"value\":\"Al\"},{\"name\":\"email\",\"value\":\"al@x.com\"},{\"name\":\"phone\",\"value\":\"555\"}]"
BasicNoEmail == "[{\"label\":\"Full Name\",\"value\":\"Jo\"}]"
BasicBroken == "[{"
BasicFormDataValues == {Absent, BasicNames, BasicNoEmail, BasicBroken}
\* applicationFormData as sent
ApplicationFormDataValues == {Absent, "{\"department\":\"Eng\"}"}

Field(label, name, value) == [label |-> label, name |-> name, value |-> value]

\* typeof basicFormData === 'string' ? JSON.parse(basicFormData) : basicFormData
\* : a list of fields, undefined for an absent field, or the SyntaxError
\* JSON.parse throws
FieldList(fields) == [t |-> "array", fields |-> fields]
NoFieldList(t) == [t |-> t, fields |-> <<>>]

ParseBasicFormData(text) ==
  CASE text = Absent -> NoFieldList("undefined")
    [] text = BasicLabels ->
         FieldList(<<Field("Full Name", Absent, "Jo"),
                     Field("Email", Absent, "jo@x.com")>>)
    [] text = BasicNames ->
         FieldList(<<Field(Absent, "fullName", "Al"),
                     Field(Absent, "email", "al@x.com"),
                     Field(Absent, "phone", "555")>>)
    [] text = BasicNoEmail -> FieldList(<<Field("Full Name", Absent, "Jo")>>)
    [] OTHER -> NoFieldList("SyntaxError")

\* JSON.stringify(parsedBasicFormData || [])
StringifyBasicFormData(parsed) ==
  CASE parsed.t = "undefined" -> "[]"
    [] parsed = ParseBasicFormData(BasicLabels) -> BasicLabels
    [] parsed = ParseBasicFormData(BasicNames) -> BasicNames
    [] parsed = ParseBasicFormData(BasicNoEmail) -> BasicNoEmail
    [] OTHER -> "null"

\* parsed?.find(field => field.label === l || field.name === n)?.value || ''
FindValue(parsed, labels, names) ==
  LET hits == {i \in 1..Len(parsed.fields) :
                 \/ parsed.fields[i].label \in labels
                 \/ parsed.fields[i].name \in names}
  IN IF hits = {} THEN ""
     ELSE parsed.fields[CHOOSE i \in hits : \A k \in hits : i <= k].value

full_nameOf(parsed) == FindValue(parsed, {"Full Name"}, {"full_name", "fullName"})
emailOf(parsed) == FindValue(parsed, {"Email"}, {"email"})
phoneOf(parsed) == FindValue(parsed, {"Phone"}, {"phone"})

\* requests of operation op in flight
InFlight(op) == Cardinality({p \in Procs : req[p].op = op})

\* upload.single("resume"): multer writes the file before the handler runs
IntakeUpload(p, hasFile) ==
  /\ FreeSlot(p)
  /\ nextApplicantId + InFlight("intake") <= MaxApplicants
  /\ IF hasFile
       THEN /\ nextFile <= MaxFiles
            /\ files' = files \cup {nextFile}
            /\ nextFile' = nextFile + 1
            /\ req' = [req EXCEPT ![p] = [op |-> "intake", file |-> nextFile]]
       ELSE /\ req' = [req EXCEPT ![p] = [op |-> "intake", file |-> 0]]
            /\ UNCHANGED disk
  /\ UNCHANGED <<held, contactCols, outbox, checkedOut, accounts, now, store, last>>

\* the row INSERT INTO applicants writes (the contact columns, where the
\* table has them, are not named by the INSERT)
IntakeApplicantRow(job_id, parsedBasic, parsedApplication, file) ==
  [job_id |-> job_id,
   basicFormData |-> StringifyBasicFormData(parsedBasic),
   applicationFormData |-> JSON_stringify(OrElse(parsedApplication, Obj(0))),
   resume_path |-> file,
   full_name |-> NULL, email |-> NULL, phone |-> NULL]

\* the row INSERT INTO shortlisted_candidates writes at intake
IntakeEntryRow(job_id, applicantId, parsedBasic) ==
  [job_post_id |-> job_id, applicant_id |-> applicantId,
   full_name |-> full_nameOf(parsedBasic), email |-> emailOf(parsedBasic),
   phone |-> phoneOf(parsedBasic),
   rating |-> 0, status |-> "New Application",
   stage |-> "Application Screening", note |-> NULL]

\* the transaction commits without the shortlisted_candidates row
EntriesAfterIntake_NoInsert(sc, entryId, row) == sc

\* shortlisted_candidates after the second INSERT of the intake transaction
EntriesAfterIntake(sc, entryId, row) == Put(sc, entryId, row)

\* catch: rollback, fs.unlink(req.file.path) when a file was uploaded
FilesAfterCatch(fs, file) == fs \ {file}

\* the handler: parse, validate, then one transaction
\* (job_id = 0: the field is absent)
IntakeSubmit(p, job_id, basicFormData, applicationFormData) ==
  /\ req[p].op = "intake"
  /\ checkedOut < connectionLimit
  /\ LET file == req[p].file
         parsedBasic == ParseBasicFormData(basicFormData)
         parsedApplication == IF applicationFormData = Absent THEN Undefined
                              ELSE JSON_parse(applicationFormData)
     IN IF parsedBasic.t = "SyntaxError" \/ parsedApplication.t = "SyntaxError"
          THEN /\ files' = FilesAfterCatch(files, file)
               /\ Respond("intake", 500, 0)
               /\ UNCHANGED <<store, nextFile>>
          ELSE IF job_id = 0 \/ full_nameOf(parsedBasic) = ""
                  \/ emailOf(parsedBasic) = ""
            THEN /\ Respond("intake", 400, 0)
                 /\ UNCHANGED <<store, disk>>
            ELSE IF file = 0
              THEN /\ Respond("intake", 400, 0)
                   /\ UNCHANGED <<store, disk>>
              ELSE IF job_id \notin DOMAIN job_posts
                THEN /\ files' = FilesAfterCatch(files, file)
                     /\ Respond("intake", 500, 0)
                     /\ UNCHANGED <<store, nextFile>>
                ELSE /\ applicants' = Put(applicants, nextApplicantId,
                          IntakeApplicantRow(job_id, parsedBasic,
                                             parsedApplication, file))
                     /\ nextApplicantId' = nextApplicantId + 1
                     /\ shortlisted_candidates' =
                          EntriesAfterIntake(shortlisted_candidates, nextShortlistId,
                            IntakeEntryRow(job_id, nextApplicantId, parsedBasic))
                     /\ nextShortlistId' = nextShortlistId + 1
                     /\ Respond("intake", 201, nextApplicantId)
                     /\ UNCHANGED <<job_posts, nextJobId, job_application_forms,
                                    nextFormId, disk>>
  /\ req' = [req EXCEPT ![p] = Idle]
  /\ UNCHANGED <<held, contactCols, outbox, checkedOut, accounts, now>>

(* ----------------------- PATCH /applicants/:id/stage ------------------ *)
\* stageId, status and note of the body: absent or a string
StageValues == {Absent, "Interview"}
StatusValues == {Absent, "Shortlisted"}
NoteValues == {Absent, "call back"}

\* SELECT id FROM shortlisted_candidates WHERE applicant_id = ?
PatchStageSelect(p, id) ==
  /\ FreeSlot(p)
  /\ req' = [req EXCEPT ![p] =
       [op |-> "patchStage", id |-> id,
        pc |-> IF EntriesOf(shortlisted_candidates, id) = {}
                 THEN "applicant" ELSE "update"]]
  /\ UNCHANGED <<held, contactCols, outbox, checkedOut, accounts, now, store, disk, last>>

\* SELECT job_id, full_name, email, phone FROM applicants WHERE id = ?
\* : the statement names columns the applicants table of createTables does
\* not have, where it raises ER_BAD_FIELD_ERROR
ContactColumnsReadable(hasCols) == hasCols

PatchStageApplicant(p) ==
  /\ req[p].op = "patchStage"
  /\ req[p].pc = "applicant"
  /\ LET id == req[p].id
     IN IF ~ContactColumnsReadable(contactCols)
          THEN /\ Respond("patchStage", 500, id)
               /\ req' = [req EXCEPT ![p] = Idle]
          ELSE IF id \notin DOMAIN applicants
            THEN /\ Respond("patchStage", 404, id)
                 /\ req' = [req EXCEPT ![p] = Idle]
            ELSE /\ req' = [req EXCEPT ![p] =
                      [op |-> "patchStage", id |-> id, pc |-> "insert",
                       applicant |-> applicants[id]]]
                 /\ UNCHANGED last
  /\ UNCHANGED <<held, contactCols, outbox, checkedOut, accounts, now, store, disk>>

\* the row the handler inserts for an applicant that has no entry
LazyEntryRow(id, applicant) ==
  [job_post_id |-> applicant.job_id, applicant_id |-> id,
   full_name |-> applicant.full_name, email |-> applicant.email,
   phone |-> applicant.phone,
   rating |-> 0, status |-> "New Application",
   stage |-> "Application Screening", note |-> NULL]

\* INSERT INTO shortlisted_candidates ... : the foreign keys and the NOT
\* NULL columns make it raise
PatchStageInsert(p) ==
  /\ req[p].op = "patchStage"
  /\ req[p].pc = "insert"
  /\ LET id == req[p].id
         row == LazyEntryRow(id, req[p].applicant)
     IN IF \/ row.job_post_id \notin DOMAIN job_posts
           \/ id \notin DOMAIN applicants
           \/ row.full_name = NULL
           \/ row.email = NULL
          THEN /\ Respond("patchStage", 500, id)
               /\ req' = [req EXCEPT ![p] = Idle]
               /\ UNCHANGED store
          ELSE /\ shortlisted_candidates' =
                    Put(shortlisted_candidates, nextShortlistId, row)
               /\ nextShortlistId' = nextShortlistId + 1
               /\ req' = [req EXCEPT ![p] =
                    [op |-> "patchStage", id |-> id, pc |-> "update"]]
               /\ UNCHANGED <<job_posts, nextJobId, job_application_forms,
                              nextFormId, applicants, nextApplicantId, last>>
  /\ UNCHANGED <<held, contactCols, outbox, checkedOut, accounts, now, disk>>

\* a transition table: the status of an entry that is "Hired" is final
EntriesAfterStageUpdate_HiredIsFinal(sc, id, stageId, status, note) ==
  [e \in DOMAIN sc |->
     IF sc[e].applicant_id = id
       THEN [sc[e] EXCEPT
               !.stage = IF stageId # Absent THEN stageId ELSE @,
               !.status = IF status # Absent /\ @ # "Hired" THEN status ELSE @,
               !.note = IF note # Absent THEN note ELSE @]
       ELSE sc[e]]

\* the UPDATE sets stage, status and note whether the body carries them or not
EntriesAfterStageUpdate_SetAll(sc, id, stageId, status, note) ==
  [e \in DOMAIN sc |->
     IF sc[e].applicant_id = id
       THEN [sc[e] EXCEPT !.stage = stageId, !.status = status, !.note = note]
       ELSE sc[e]]

\* UPDATE shortlisted_candidates SET <the supplied fields> WHERE applicant_id = ?
EntriesAfterStageUpdate(sc, id, stageId, status, note) ==
  [e \in DOMAIN sc |->
     IF sc[e].applicant_id = id
       THEN [sc[e] EXCEPT
               !.stage = IF stageId # Absent THEN stageId ELSE @,
               !.status = IF status # Absent THEN status ELSE @,
               !.note = IF note # Absent THEN note ELSE @]
       ELSE sc[e]]

\* updateFields.length === 0 answers 400; affectedRows === 0 answers 404
PatchStageUpdate(p, stageId, status, note) ==
  /\ req[p].op = "patchStage"
  /\ req[p].pc = "update"
  /\ LET id == req[p].id
     IN IF stageId = Absent /\ status = Absent /\ note = Absent
          THEN /\ Respond("patchStage", 400, id)
               /\ req' = [req EXCEPT ![p] = Idle]
               /\ UNCHANGED store
          ELSE /\ shortlisted_candidates' =
                    EntriesAfterStageUpdate(shortlisted_candidates, id,
                                            stageId, status, note)
               /\ IF EntriesOf(shortlisted_candidates, id) = {}
                    THEN /\ Respond("patchStage", 404, id)
                         /\ req' = [req EXCEPT ![p] = Idle]
                    ELSE /\ req' = [req EXCEPT ![p] =
                              [op |-> "patchStage", id |-> id, pc |-> "fetch"]]
                         /\ UNCHANGED last
               /\ UNCHANGED <<job_posts, nextJobId, job_application_forms,
                              nextFormId, applicants, nextApplicantId,
                              nextShortlistId>>
  /\ UNCHANGED <<held, contactCols, outbox, checkedOut, accounts, now, disk>>

\* the SELECT that fetches the updated row joins applicants, job_posts and
\* shortlisted_candidates and names a.full_name, a.steps_json, ...
PatchStageFetch(p) ==
  /\ req[p].op = "patchStage"
  /\ req[p].pc = "fetch"
  /\ LET id == req[p].id
     IN IF ~ContactColumnsReadable(contactCols)
          THEN Respond("patchStage", 500, id)
          ELSE IF /\ id \in DOMAIN applicants
                  /\ applicants[id].job_id \in DOMAIN job_posts
                  /\ EntriesOf(shortlisted_candidates, id) # {}
            THEN Respond("patchStage", 200, id)
            ELSE Respond("patchStage", 404, id)
  /\ req' = [req EXCEPT ![p] = Idle]
  /\ UNCHANGED <<held, contactCols, outbox, checkedOut, accounts, now, store, disk>>

(* --------------------------- pipeline views --------------------------- *)
\* createTables gives shortlisted_candidates.status no COLLATE clause: the
\* column takes the default collation of the server, and the default
\* collations of MySQL compare without regard to case.  The key under which
\* such a collation compares a status:
CollationKey(s) ==
  CASE s = "Shortlisted" -> "shortlisted"
    [] s = "Rejected" -> "rejected"
    [] s = "Hired" -> "hired"
    [] OTHER -> s

\* sc.status = 'literal' in a WHERE clause
SqlEquals(a, b) == CollationKey(a) = CollationKey(b)

\* FROM shortlisted_candidates sc JOIN applicants a ON a.id = sc.applicant_id
\* JOIN job_posts j ON j.id = sc.job_post_id WHERE sc.status = status
ViewRows(sc, apps, jobs, status) ==
  {e \in DOMAIN sc : /\ sc[e].applicant_id \in DOMAIN apps
                     /\ sc[e].job_post_id \in DOMAIN jobs
                     /\ SqlEquals(sc[e].status, status)}

\* GET /applicants/shortlisted: the SELECT names a.steps_json, a.fields_json
ListShortlisted ==
  /\ last' = IF ContactColumnsReadable(contactCols)
               THEN [op |-> "listShortlisted", status |-> 200,
                     rows |-> ViewRows(shortlisted_candidates, applicants,
                                       job_posts, "Shortlisted")]
               ELSE [op |-> "listShortlisted", status |-> 500, rows |-> {}]
  /\ UNCHANGED <<held, contactCols, outbox, checkedOut, accounts, now, store, disk, req>>

\* GET /applicants/rejected
ListRejected ==
  /\ last' = [op |-> "listRejected", status |-> 200,
              rows |-> ViewRows(shortlisted_candidates, applicants,
                                job_posts, "Rejected")]
  /\ UNCHANGED <<held, contactCols, outbox, checkedOut, accounts, now, store, disk, req>>

\* GET /applicants/hired
ListHired ==
  /\ last' = [op |-> "listHired", status |-> 200,
              rows |-> ViewRows(shortlisted_candidates, applicants,
                                job_posts, "Hired")]
  /\ UNCHANGED <<held, contactCols, outbox, checkedOut, accounts, now, store, disk, req>>

\* GET /applicants: FROM applicants a JOIN job_posts j ON j.id = a.job_id
\* LEFT JOIN shortlisted_candidates sc; the SELECT names a.full_name, ...
\* (rows: the applicants listed)
ListApplicants ==
  /\ last' = IF ContactColumnsReadable(contactCols)
               THEN [op |-> "listApplicants", status |-> 200,
                     rows |-> {a \in DOMAIN applicants :
                                 applicants[a].job_id \in DOMAIN job_posts}]
               ELSE [op |-> "listApplicants", status |-> 500, rows |-> {}]
  /\ UNCHANGED <<held, contactCols, outbox, checkedOut, accounts, now, store, disk, req>>

(* ------------------------- accounts and tokens ------------------------ *)
\* admin_users rows the run may create
MaxAdmins == 2
\* days the clock may advance over a run
MaxDays == 8

\* A password is the sequence of its characters.  The character classes of
\* passwordRegex, cut down to the characters the passwords below use:
LowerCase == {"a", "b", "c", "d", "e", "f"}
UpperCase == {"A", "B"}
Digit == {"1", "2"}
Symbol == {"!", "@", "#", "$", "%", "^", "&", "*"}

PwGood == <<"A", "b", "c", "d", "e", "f", "1", "!">>
PwOther == <<"B", "b", "c", "d", "e", "f", "2", "@">>
PwShort == <<"A", "b", "1", "!">>
PwNoSymbol == <<"A", "b", "c", "d", "e", "f", "1", "2">>
PwDash == <<"A", "b", "c", "d", "e", "f", "1", "!", "-">>

\* the symbol lookahead (?=.*[!@#$%^&*]) is missing
passwordRegex_NoSymbolCheck(password) ==
  /\ \E i \in 1..Len(password) : password[i] \in LowerCase
  /\ \E i \in 1..Len(password) : password[i] \in UpperCase
  /\ \E i \in 1..Len(password) : password[i] \in Digit
  /\ \A i \in 1..Len(password) :
       password[i] \in LowerCase \cup UpperCase \cup Digit \cup Symbol
  /\ Len(password) >= 8

\* /^(?=.*[a-z])(?=.*[A-Z])(?=.*\d)(?=.*[!@#$%^&*])[A-Za-z\d!@#$%^&*]{8,}$/
passwordRegex(password) ==
  /\ \E i \in 1..Len(password) : password[i] \in LowerCase
  /\ \E i \in 1..Len(password) : password[i] \in UpperCase
  /\ \E i \in 1..Len(password) : password[i] \in Digit
  /\ \E i \in 1..Len(password) : password[i] \in Symbol
  /\ \A i \in 1..Len(password) :
       password[i] \in LowerCase \cup UpperCase \cup Digit \cup Symbol
  /\ Len(password) >= 8

\* the password is stored as it was sent
bcrypt_hash_Plain(password) == password

\* bcrypt.hash(password, 10): a salted hash, told apart from the password
bcrypt_hash(password) == [bcrypt |-> password]

\* the comparison accepts every password
bcrypt_compare_Always(password, hash) == TRUE

\* bcrypt.compare(password, hash)
bcrypt_compare(password, hash) == hash = [bcrypt |-> password]

\* admin.role && admin.role.trim() !== "" ? admin.role : "admin"
finalRole(role) == IF role \in {NULL, "", " "} THEN "admin" ELSE role

\* the table has no index on email and the handlers make no check
AdminsWithEmail_NoIndex(admins, email) == {}

\* SELECT ... FROM admin_users WHERE email = ? (and the rows the UNIQUE index
\* on email finds for an INSERT or UPDATE)
AdminsWithEmail(admins, email) == {a \in DOMAIN admins : admins[a].email = email}

\* process.env.JWT_SECRET || "dev-secret"
JWT_SECRET == "JWT_SECRET"
\* expiresIn: "7d"
SevenDays == 7

\* jwt.sign(payload, secret, { expiresIn: "7d" }) at the time t
jwt_sign(payload, secret, t) ==
  [payload |-> payload, key |-> secret, exp |-> t + SevenDays]

\* jwt.verify(token, secret) at the time t: the payload, or the error thrown
JwtError == [id |-> 0, uuid |-> 0, role |-> "<JsonWebTokenError>"]
jwt_verify(token, secret, t) ==
  IF token.key = secret /\ t < token.exp THEN token.payload ELSE JwtError

\* uuidv4() for the row that gets the id
UuidOf(id) == <<"uuid", id>>

(* ------------------------------ POST /signup -------------------------- *)
\* the row INSERT INTO admin_users (uuid, full_name, email, password) writes;
\* role takes the column default
SignupRow(id, full_name, email, hashedPassword) ==
  [uuid |-> UuidOf(id), full_name |-> full_name, email |-> email,
   password |-> hashedPassword, role |-> "admin"]

\* the regex test and the SELECT by email
SignupSelect(p, full_name, email, password) ==
  /\ FreeSlot(p)
  /\ nextAdminId <= MaxAdmins
  /\ IF ~passwordRegex(password)
       THEN /\ Respond("signup", 400, 0)
            /\ UNCHANGED req
       ELSE IF AdminsWithEmail(admin_users, email) # {}
         THEN /\ Respond("signup", 400, 0)
              /\ UNCHANGED req
         ELSE /\ req' = [req EXCEPT ![p] =
                           [op |-> "signup", full_name |-> full_name,
                            email |-> email, password |-> password]]
              /\ UNCHANGED last
  /\ UNCHANGED <<held, contactCols, outbox, checkedOut, accounts, now, store, disk>>

\* bcrypt.hash and the INSERT: full_name is NOT NULL and email is UNIQUE, a violation is
\* caught and answered 500
SignupInsert(p) ==
  /\ req[p].op = "signup"
  /\ IF req[p].full_name = Absent
        \/ AdminsWithEmail(admin_users, req[p].email) # {}
       THEN /\ Respond("signup", 500, 0)
            /\ UNCHANGED accounts
       ELSE /\ admin_users' = Put(admin_users, nextAdminId,
                                  SignupRow(nextAdminId, req[p].full_name,
                                            req[p].email,
                                            bcrypt_hash(req[p].password)))
            /\ nextAdminId' = nextAdminId + 1
            /\ Respond("signup", 200, nextAdminId)
  /\ req' = [req EXCEPT ![p] = Idle]
  /\ UNCHANGED <<held, contactCols, outbox, checkedOut, now, store, disk>>

(* ------------------------------ POST /login --------------------------- *)
\* the payload jwt.sign is given for the row id
TokenPayload(admins, id) ==
  [id |-> id, uuid |-> admins[id].uuid, role |-> finalRole(admins[id].role)]

\* what POST /login answers over the rows admins at the time t
LoginResponse(admins, email, password, t) ==
  IF AdminsWithEmail(admins, email) = {}
    THEN [op |-> "login", status |-> 400]
    ELSE LET id == CHOOSE a \in AdminsWithEmail(admins, email) : TRUE
         IN IF ~bcrypt_compare(password, admins[id].password)
              THEN [op |-> "login", status |-> 400]
              ELSE [op |-> "login", status |-> 200,
                    token |-> jwt_sign(TokenPayload(admins, id), JWT_SECRET, t)]

Login(email, password) ==
  /\ last' = LoginResponse(admin_users, email, password, now)
  /\ UNCHANGED <<held, contactCols, outbox, checkedOut, accounts, now, store, disk, req>>

\* a day passes
Tick ==
  /\ now < MaxDays
  /\ now' = now + 1
  /\ UNCHANGED <<held, contactCols, outbox, checkedOut, accounts, store, disk, req, last>>

(* --------------------------- admin accounts --------------------------- *)
\* GET /: SELECT id, full_name AS name, email, role FROM admin_users
ListUsers ==
  /\ last' = [op |-> "listUsers", status |-> 200, rows |-> DOMAIN admin_users]
  /\ UNCHANGED <<held, contactCols, outbox, checkedOut, accounts, now, store, disk, req>>

\* const defaultPassword = "Password@123"
defaultPassword == <<"P", "a", "s", "s", "w", "o", "r", "d", "@", "1", "2", "3">>

\* POST /add-user: the check of the body and the SELECT by email
AddUserSelect(p, name, email, role) ==
  /\ FreeSlot(p)
  /\ nextAdminId <= MaxAdmins
  /\ IF name = Absent \/ email = Absent \/ role = Absent
       THEN /\ Respond("addUser", 400, 0)
            /\ UNCHANGED req
       ELSE IF AdminsWithEmail(admin_users, email) # {}
         THEN /\ Respond("addUser", 400, 0)
              /\ UNCHANGED req
         ELSE /\ req' = [req EXCEPT ![p] = [op |-> "addUser", name |-> name,
                                            email |-> email, role |-> role]]
              /\ UNCHANGED last
  /\ UNCHANGED <<held, contactCols, outbox, checkedOut, accounts, now, store, disk>>

\* POST /add-user: the INSERT (email is UNIQUE, a violation is answered 500)
AddUserInsert(p) ==
  /\ req[p].op = "addUser"
  /\ IF AdminsWithEmail(admin_users, req[p].email) # {}
       THEN /\ Respond("addUser", 500, 0)
            /\ UNCHANGED accounts
       ELSE /\ admin_users' = Put(admin_users, nextAdminId,
                                  [uuid |-> UuidOf(nextAdminId),
                                   full_name |-> req[p].name,
                                   email |-> req[p].email,
                                   password |-> bcrypt_hash(defaultPassword),
                                   role |-> req[p].role])
            /\ nextAdminId' = nextAdminId + 1
            /\ Respond("addUser", 200, nextAdminId)
  /\ req' = [req EXCEPT ![p] = Idle]
  /\ UNCHANGED <<held, contactCols, outbox, checkedOut, now, store, disk>>

\* DELETE /delete-user/:id: one DELETE, 404 when it affects no row
DeleteUser(id) ==
  /\ IF id \notin DOMAIN admin_users
       THEN /\ Respond("deleteUser", 404, id)
            /\ UNCHANGED accounts
       ELSE /\ admin_users' = Restrict(admin_users, DOMAIN admin_users \ {id})
            /\ Respond("deleteUser", 200, id)
            /\ UNCHANGED nextAdminId
  /\ UNCHANGED <<held, contactCols, outbox, checkedOut, now, store, disk, req>>

\* PATCH /update-user/:id: one UPDATE of the fields the body carries;
\* ER_DUP_ENTRY on email is answered 409
UpdateUser(id, name, email) ==
  /\ IF name = Absent /\ email = Absent
       THEN /\ Respond("updateUser", 400, id)
            /\ UNCHANGED accounts
       ELSE IF id \notin DOMAIN admin_users
         THEN /\ Respond("updateUser", 404, id)
              /\ UNCHANGED accounts
         ELSE IF email # Absent /\ AdminsWithEmail(admin_users, email) \ {id} # {}
           THEN /\ Respond("updateUser", 409, id)
                /\ UNCHANGED accounts
           ELSE /\ admin_users' =
                     [admin_users EXCEPT ![id] =
                        [@ EXCEPT !.full_name = IF name = Absent THEN @ ELSE name,
                                  !.email = IF email = Absent THEN @ ELSE email]]
                /\ Respond("updateUser", 200, id)
                /\ UNCHANGED nextAdminId
  /\ UNCHANGED <<held, contactCols, outbox, checkedOut, now, store, disk, req>>

\* PATCH /update-password/:id: the check of the body, the SELECT by id and
\* bcrypt.compare against the hash it returned
UpdatePasswordSelect(p, id, currentPassword, newPassword) ==
  /\ FreeSlot(p)
  /\ IF currentPassword = Absent \/ newPassword = Absent
       THEN /\ Respond("updatePassword", 400, id)
            /\ UNCHANGED req
       ELSE IF id \notin DOMAIN admin_users
         THEN /\ Respond("updatePassword", 404, id)
              /\ UNCHANGED req
         ELSE IF ~bcrypt_compare(currentPassword, admin_users[id].password)
           THEN /\ Respond("updatePassword", 401, id)
                /\ UNCHANGED req
           ELSE /\ req' = [req EXCEPT ![p] = [op |-> "updatePassword", id |-> id,
                                              newPassword |-> newPassword]]
                /\ UNCHANGED last
  /\ UNCHANGED <<held, contactCols, outbox, checkedOut, accounts, now, store, disk>>

\* PATCH /update-password/:id: bcrypt.hash and the UPDATE ... WHERE id = ?
UpdatePasswordUpdate(p) ==
  /\ req[p].op = "updatePassword"
  /\ admin_users' =
       [a \in DOMAIN admin_users |->
          IF a = req[p].id
            THEN [admin_users[a] EXCEPT !.password = bcrypt_hash(req[p].newPassword)]
            ELSE admin_users[a]]
  /\ Respond("updatePassword", 200, req[p].id)
  /\ req' = [req EXCEPT ![p] = Idle]
  /\ UNCHANGED <<held, contactCols, outbox, checkedOut, nextAdminId, now, store, disk>>

(* ------------------------ DELETE /applicants/:id ---------------------- *)
\* SELECT resume_path FROM applicants WHERE id = ?
DeleteApplicantSelect(p, id) ==
  /\ FreeSlot(p)
  /\ checkedOut < connectionLimit
  /\ IF id \notin DOMAIN applicants
       THEN /\ Respond("deleteApplicant", 404, id)
            /\ UNCHANGED <<req, checkedOut>>
       ELSE /\ req' = [req EXCEPT ![p] = [op |-> "deleteApplicant", id |-> id,
                                          resumePath |-> applicants[id].resume_path]]
            /\ UNCHANGED last
            /\ checkedOut' = checkedOut + 1
  /\ UNCHANGED <<held, contactCols, outbox, accounts, now, store, disk>>

\* DELETE FROM applicants WHERE id = ? (ON DELETE CASCADE removes the entries
\* of the applicant), then fs.unlink of the resume where the file exists
DeleteApplicantDelete(p) ==
  /\ req[p].op = "deleteApplicant"
  /\ applicants' = Restrict(applicants, DOMAIN applicants \ {req[p].id})
  /\ shortlisted_candidates' =
       Restrict(shortlisted_candidates,
                DOMAIN shortlisted_candidates
                  \ EntriesOf(shortlisted_candidates, req[p].id))
  /\ files' = files \ {req[p].resumePath}
  /\ Respond("deleteApplicant", 200, req[p].id)
  /\ req' = [req EXCEPT ![p] = Idle]
  /\ checkedOut' = checkedOut - 1
  /\ UNCHANGED <<held, contactCols, outbox, accounts, now, job_posts, nextJobId,
                 job_application_forms, nextFormId, nextApplicantId,
                 nextShortlistId, nextFile>>

(* --------------------------- authenticateUser ------------------------- *)
\* the Authorization header: none, one that does not start with "Bearer ",
\* or "Bearer " followed by a token
NoHeader == [scheme |-> "none"]
BasicHeader == [scheme |-> "Basic"]
Bearer(token) == [scheme |-> "Bearer", token |-> token]

\* a token text that is no JWT
MalformedToken == [payload |-> JwtError, key |-> "<malformed>", exp |-> 0]

\* the client has not logged in
NoToken == [payload |-> JwtError, key |-> "<none>", exp |-> 0]

\* req.user is not set: the middleware has answered 401
NoUser == [id |-> 0, uuid |-> 0, role |-> "<401>"]

\* the token is decoded without its signature and expiry being verified
authenticateUser_Decode(header, t) ==
  IF header.scheme # "Bearer" \/ header.token = MalformedToken
    THEN NoUser
    ELSE [id |-> header.token.payload.id, uuid |-> header.token.payload.uuid,
          role |-> finalRole(header.token.payload.role)]

\* the token is verified and its account looked up in admin_users as well
authenticateUser_StoredAccount(header, t) ==
  IF header.scheme # "Bearer"
    THEN NoUser
    ELSE LET decoded == jwt_verify(header.token, JWT_SECRET, t)
         IN IF decoded = JwtError \/ decoded.id \notin DOMAIN admin_users
              THEN NoUser
              ELSE [id |-> decoded.id, uuid |-> decoded.uuid,
                    role |-> finalRole(decoded.role)]

\* the middleware at the time t: req.user, or NoUser where it answers 401
authenticateUser(header, t) ==
  IF header.scheme # "Bearer"
    THEN NoUser
    ELSE LET decoded == jwt_verify(header.token, JWT_SECRET, t)
         IN IF decoded = JwtError
              THEN NoUser
              ELSE [id |-> decoded.id, uuid |-> decoded.uuid,
                    role |-> finalRole(decoded.role)]

\* app.<method>(route, authenticateUser, handler): the handler's first step
\* runs only when the middleware calls next()
Protected(op, header, handler) ==
  IF authenticateUser(header, now) = NoUser
    THEN /\ Respond(op, 401, 0)
         /\ UNCHANGED <<held, contactCols, outbox, checkedOut, accounts, now, store, disk, req>>
    ELSE handler

(* ------------------- connection.beginTransaction() fails -------------- *)
\* /add-job and PATCH /jobs/:id: getConnection and beginTransaction are
\* awaited before the try block, so a beginTransaction that rejects ends the
\* handler with neither catch nor finally run: no response, no release
BeginTransactionFails(op) ==
  /\ op \in {"addJob", "patchJob"}
  /\ checkedOut < connectionLimit
  /\ checkedOut' = checkedOut + 1
  /\ UNCHANGED <<held, contactCols, outbox, accounts, now, store, disk, req, last>>

\* POST /applicants: beginTransaction is awaited inside the try block; the
\* catch unlinks the upload and answers 500, finally releases
IntakeBeginFails(p) ==
  /\ req[p].op = "intake"
  /\ req[p].file # 0
  /\ checkedOut < connectionLimit
  /\ files' = FilesAfterCatch(files, req[p].file)
  /\ Respond("intake", 500, 0)
  /\ req' = [req EXCEPT ![p] = Idle]
  /\ UNCHANGED <<held, contactCols, outbox, checkedOut, accounts, now, store, nextFile>>

(* ------------------------- sendWhatsAppMessage ------------------------ *)
\* messages the run may send
MaxSent == 4

\* const cleanPhone = 8985615409, as JSON.stringify writes it
cleanPhone == "8985615409"

\* JSON.stringify({ messaging_product, to: cleanPhone, type, text: { body } })
WhatsAppPayload(to, message) ==
  [messaging_product |-> "whatsapp", to |-> cleanPhone, type |-> "text",
   body |-> message]

\* sendWhatsAppMessage(to, message): rejects when the credentials are not
\* configured; otherwise writes the payload and resolves or rejects with the
\* answer of the API
sendWhatsAppMessage(to, message, configured, delivered) ==
  /\ Len(outbox) < MaxSent
  /\ IF ~configured
       THEN /\ last' = [op |-> "sendWhatsApp", status |-> "not configured"]
            /\ UNCHANGED outbox
       ELSE /\ outbox' = Append(outbox, WhatsAppPayload(to, message))
            /\ last' = [op |-> "sendWhatsApp",
                        status |-> IF delivered THEN "resolved" ELSE "rejected"]
  /\ UNCHANGED <<held, contactCols, checkedOut, accounts, now, store, disk, req>>

(* ------------------------------ the system ---------------------------- *)
\* The store outlives the process: createTables runs CREATE TABLE IF NOT
\* EXISTS, so the server starts on whatever earlier runs left.  The start
\* states are the empty store and stores holding one or two postings (each
\* with its form), the first of them with or without one applicant that has
\* no shortlisted_candidates row, the case the stage handler creates the
\* row for.  The applicants table is the one createTables declares or an
\* older one that also has the contact columns the handlers read.
LegacyJob(k) ==
  [job_title |-> "a", slug |-> IF k = 1 THEN "a" ELSE "b",
   details |-> "{}", description |-> "{}"]
LegacyForm(k) ==
  [job_post_id |-> k, basicFormSchema |-> "[{\"name\":\"email\"}]",
   applicationFormSchema |-> "{\"department\":\"Eng\"}"]
LegacyApplicant ==
  [job_id |-> 1, basicFormData |-> BasicLabels, applicationFormData |-> "{}",
   resume_path |-> 1, full_name |-> "Jo", email |-> "jo@x.com", phone |-> ""]

Init ==
  /\ contactCols \in BOOLEAN
  /\ \E k \in 0..2, orphan \in BOOLEAN :
       /\ orphan => k >= 1
       /\ job_posts = [j \in 1..k |-> LegacyJob(j)]
       /\ nextJobId = k + 1
       /\ job_application_forms = [j \in 1..k |-> LegacyForm(j)]
       /\ nextFormId = k + 1
       /\ applicants = IF orphan THEN [a \in {1} |-> LegacyApplicant] ELSE NoRows
       /\ nextApplicantId = IF orphan THEN 2 ELSE 1
       /\ files = IF orphan THEN {1} ELSE {}
       /\ nextFile = IF orphan THEN 2 ELSE 1
  /\ shortlisted_candidates = NoRows
  /\ nextShortlistId = 1
  /\ req = [p \in Procs |-> Idle]
  /\ checkedOut = 0
  /\ outbox = <<>>
  /\ last = [op |-> "none", status |-> 0]
  /\ admin_users = NoRows
  /\ nextAdminId = 1
  /\ now = 0
  /\ held = NoToken

\* no request is in flight
AllIdle == \A q \in Procs : req[q] = Idle

\* a start state that holds no applicant
NoApplicants == applicants = NoRows

(* Job postings: create, update and delete, one request at a time, the    *)
(* bodies varying in the columns of the posting.                           *)
JobsInit == Init /\ NoApplicants /\ contactCols = FALSE

AddJobTitles == {Undefined, Str(1)}
AddJobSlugs == {Undefined, Str(1), Str(2)}
AddJobDetails == {Undefined, Obj(1)}
PatchJobTitles == {Undefined, Str(2)}
PatchJobSlugs == {Undefined, Str(1), Str(2)}
PatchJobDetails == {Undefined, Str(0), Obj(1)}
PatchJobDescriptions == {Undefined, Obj(2)}

JobsNext ==
  \/ \E title \in AddJobTitles, slug \in AddJobSlugs, details \in AddJobDetails :
       /\ AllIdle
       /\ AddJob(title, slug, details, Undefined, Undefined, Undefined, Undefined)
  \/ \E p \in Procs, id \in JobIds : AllIdle /\ PatchJobSelect(p, id)
  \/ \E p \in Procs, title \in PatchJobTitles, slug \in PatchJobSlugs,
        details \in PatchJobDetails, description \in PatchJobDescriptions :
       PatchJobUpdate(p, title, slug, details, description,
                      Undefined, Undefined, Undefined)
  \/ \E p \in Procs, id \in JobIds : AllIdle /\ DeleteJobSelect(p, id)
  \/ \E p \in Procs : DeleteJobDelete(p)

SpecJobs == JobsInit /\ [][JobsNext]_vars

(* Job postings, one request at a time, where the second statement of a   *)
(* transaction may fail.                                                   *)
TxnNext ==
  \/ JobsNext
  \/ \E title \in AddJobTitles, slug \in AddJobSlugs, details \in AddJobDetails :
       AllIdle /\ AddJobFormInsertFails(title, slug, details, Undefined)
  \/ \E p \in Procs, title \in PatchJobTitles, slug \in PatchJobSlugs,
        details \in PatchJobDetails, description \in PatchJobDescriptions :
       PatchJobFormUpdateFails(p, title, slug, details, description)

SpecTxn == JobsInit /\ [][TxnNext]_vars

(* Job postings, one request at a time, the bodies varying in the form     *)
(* schemas.                                                                *)
BasicFormValues == {Undefined, Arr(1)}
ApplicationFormSchemaValues == {Undefined, Obj(1)}
ApplicationFormValues == {Undefined, Obj(2)}

FormsNext ==
  \/ \E slug \in {Str(1), Str(2)}, basicFormSchema \in BasicFormValues,
        applicationForm \in ApplicationFormValues,
        applicationFormSchema \in ApplicationFormSchemaValues :
       /\ AllIdle
       /\ AddJob(Str(1), slug, Undefined, Undefined, basicFormSchema,
                 applicationForm, applicationFormSchema)
  \/ \E p \in Procs, id \in JobIds : AllIdle /\ PatchJobSelect(p, id)
  \/ \E p \in Procs, title \in PatchJobTitles,
        basicFormSchema \in BasicFormValues,
        applicationFormSchema \in ApplicationFormSchemaValues,
        applicationForm \in ApplicationFormValues :
       PatchJobUpdate(p, title, Undefined, Undefined, Undefined,
                      basicFormSchema, applicationFormSchema, applicationForm)

SpecForms == JobsInit /\ [][FormsNext]_vars

(* Applicant intake alone, requests overlapping. *)
IntakeNext ==
  \/ \E p \in Procs, hasFile \in BOOLEAN : IntakeUpload(p, hasFile)
  \/ \E p \in Procs, job_id \in {0} \cup JobIds,
        basicFormData \in BasicFormDataValues,
        applicationFormData \in ApplicationFormDataValues :
       IntakeSubmit(p, job_id, basicFormData, applicationFormData)

SpecIntake == Init /\ [][IntakeNext]_vars

(* The stage handler next to intake: a well-formed submission with a      *)
(* resume to an existing or a missing posting.                             *)
StageNext ==
  \/ \E p \in Procs : IntakeUpload(p, TRUE)
  \/ \E p \in Procs, job_id \in JobIds :
       IntakeSubmit(p, job_id, BasicNames, Absent)
  \/ \E p \in Procs, id \in ApplicantIds : PatchStageSelect(p, id)
  \/ \E p \in Procs : PatchStageApplicant(p)
  \/ \E p \in Procs : PatchStageInsert(p)
  \/ \E p \in Procs, stageId \in StageValues, status \in StatusValues,
        note \in NoteValues : PatchStageUpdate(p, stageId, status, note)
  \/ \E p \in Procs : PatchStageFetch(p)

\* requests overlapping
SpecStage == Init /\ [][StageNext]_vars

\* one request at a time
StageSeqNext ==
  \/ \E p \in Procs : AllIdle /\ IntakeUpload(p, TRUE)
  \/ \E p \in Procs, job_id \in JobIds :
       IntakeSubmit(p, job_id, BasicNames, Absent)
  \/ \E p \in Procs, id \in ApplicantIds : AllIdle /\ PatchStageSelect(p, id)
  \/ \E p \in Procs : PatchStageApplicant(p)
  \/ \E p \in Procs : PatchStageInsert(p)
  \/ \E p \in Procs, stageId \in StageValues, status \in StatusValues,
        note \in NoteValues : PatchStageUpdate(p, stageId, status, note)
  \/ \E p \in Procs : PatchStageFetch(p)

SpecStageSeq == Init /\ [][StageSeqNext]_vars

(* Deleting postings next to intake. *)
CascadeNext ==
  \/ \E p \in Procs : IntakeUpload(p, TRUE)
  \/ \E p \in Procs, job_id \in JobIds :
       IntakeSubmit(p, job_id, BasicNames, Absent)
  \/ \E p \in Procs, id \in JobIds : DeleteJobSelect(p, id)
  \/ \E p \in Procs : DeleteJobDelete(p)

SpecCascade == Init /\ [][CascadeNext]_vars

(* ------------------------------- claims ------------------------------- *)
\* the request in slot p, a stage request, is answered in this step
StageAnswered(p) == req[p].op = "patchStage" /\ req'[p] = Idle

\* C1: with one request at a time, a stage request on an existing applicant
\* ends with exactly one shortlisted_candidates row for the applicant (the
\* row is created when there was none, and later requests change that same
\* row), and the UPDATE of the request writes every field the body carries.
C1_LazyEntryCreatedOnce ==
  [][/\ \A p \in Procs :
          (StageAnswered(p) /\ req[p].id \in DOMAIN applicants)
            => Cardinality(EntriesOf(shortlisted_candidates', req[p].id)) = 1
     /\ \A p \in Procs, stageId \in StageValues, status \in StatusValues,
           note \in NoteValues :
          PatchStageUpdate(p, stageId, status, note)
            => \A e \in EntriesOf(shortlisted_candidates', req[p].id) :
                 /\ stageId # Absent => shortlisted_candidates'[e].stage = stageId
                 /\ status # Absent => shortlisted_candidates'[e].status = status
                 /\ note # Absent => shortlisted_candidates'[e].note = note]_vars

\* C2: in every reachable state, whatever the interleaving of the requests,
\* an applicant has at most one shortlisted_candidates row.
C2_AtMostOneEntry ==
  \A a \in DOMAIN applicants :
    Cardinality(EntriesOf(shortlisted_candidates, a)) <= 1

\* the applicant row was written by POST /applicants
FromIntake(a) == applicants[a] # LegacyApplicant

\* C3: intake is atomic: in every state another request can observe, each
\* applicant that POST /applicants created has exactly one
\* shortlisted_candidates row, of its posting, with rating 0, status
\* "New Application" and stage "Application Screening", and no
\* shortlisted_candidates row is without its applicant.
C3_IntakeAtomic ==
  /\ \A a \in DOMAIN applicants :
       FromIntake(a) =>
         \E e \in DOMAIN shortlisted_candidates :
           /\ EntriesOf(shortlisted_candidates, a) = {e}
           /\ shortlisted_candidates[e].job_post_id = applicants[a].job_id
           /\ shortlisted_candidates[e].rating = 0
           /\ shortlisted_candidates[e].status = "New Application"
           /\ shortlisted_candidates[e].stage = "Application Screening"
  /\ \A e \in DOMAIN shortlisted_candidates :
       shortlisted_candidates[e].applicant_id \in DOMAIN applicants

\* an intake was answered 201 and its applicant and entry are stored
C3_Witness ==
  /\ last = [op |-> "intake", status |-> 201]
  /\ \E a \in DOMAIN applicants :
       FromIntake(a) /\ EntriesOf(shortlisted_candidates, a) # {}

\* C4: a resume file on disk is the file of a stored applicant or of a
\* request still in flight: a request that failed after multer wrote its
\* file has left neither the file nor rows behind.
C4_FailedIntakeLeavesNoFile ==
  \A f \in files :
    \/ \E a \in DOMAIN applicants : applicants[a].resume_path = f
    \/ \E p \in Procs : req[p].op = "intake" /\ req[p].file = f

\* C5: a POST /applicants without a resume file is answered 400 and writes
\* nothing to the database.
C5_NoResumeIs400 ==
  [][\A p \in Procs :
       (req[p].op = "intake" /\ req[p].file = 0 /\ req'[p] = Idle)
         => (last'.status = 400 /\ UNCHANGED store)]_vars

\* C6: a DELETE /jobs/:id that finds the posting removes it with its form
\* row, its applicants and their shortlisted_candidates rows and leaves the
\* rows of every other posting as they were; a DELETE /jobs/:id that does
\* not find the posting is answered 404 and changes nothing.
C6_DeleteJobCascades ==
  [][/\ \A p \in Procs, id \in JobIds :
          (DeleteJobSelect(p, id) /\ id \notin DOMAIN job_posts)
            => (last'.status = 404 /\ UNCHANGED store)
     /\ \A p \in Procs :
          (req[p].op = "deleteJob" /\ req'[p] = Idle) =>
            LET id == req[p].id
            IN IF id \in DOMAIN job_posts
                 THEN /\ last' = [op |-> "deleteJob", status |-> 200]
                      /\ id \notin DOMAIN job_posts'
                      /\ FormsOf(job_application_forms', id) = {}
                      /\ ApplicantsOf(applicants', id) = {}
                      /\ EntriesOfJob(shortlisted_candidates', id) = {}
                      /\ \A e \in DOMAIN shortlisted_candidates' :
                           shortlisted_candidates'[e].applicant_id
                             \in DOMAIN applicants'
                      /\ job_posts' = Restrict(job_posts, DOMAIN job_posts \ {id})
                      /\ job_application_forms' =
                           Restrict(job_application_forms,
                                    {f \in DOMAIN job_application_forms :
                                       job_application_forms[f].job_post_id # id})
                      /\ applicants' =
                           Restrict(applicants,
                                    {a \in DOMAIN applicants :
                                       applicants[a].job_id # id})
                      /\ shortlisted_candidates' =
                           Restrict(shortlisted_candidates,
                                    {e \in DOMAIN shortlisted_candidates :
                                       shortlisted_candidates[e].job_post_id # id})
                 ELSE last'.status = 404 /\ UNCHANGED store]_vars

\* a posting that had an applicant was deleted and another posting's
\* applicant and entry are still stored
C6_Witness ==
  /\ last = [op |-> "deleteJob", status |-> 200]
  /\ DOMAIN applicants # {}
  /\ DOMAIN shortlisted_candidates # {}
  /\ Cardinality(DOMAIN applicants) < nextApplicantId - 1

\* C7: a POST /add-job whose slug a stored posting already has is answered
\* with a conflict error (400 or 409) and adds neither a job_posts nor a
\* job_application_forms row, and no two postings ever share a slug.
C7_DuplicateSlugIsConflict ==
  [][/\ \A title \in AddJobTitles, slug \in AddJobSlugs,
           details \in AddJobDetails :
          (/\ AddJob(title, slug, details, Undefined, Undefined, Undefined,
                     Undefined)
           /\ Truthy(title) /\ Truthy(slug)
           /\ JobsWithSlug(job_posts, StrText(slug)) # {})
            => /\ last'.status \in {400, 409}
               /\ UNCHANGED <<job_posts, job_application_forms>>
     /\ \A j, k \in DOMAIN job_posts' :
          job_posts'[j].slug = job_posts'[k].slug => j = k]_vars

\* C8: after any sequence of creations, updates and deletions of postings,
\* every posting has exactly one job_application_forms row and every
\* job_application_forms row is the row of a stored posting.
C8_OneFormPerJob ==
  /\ \A j \in DOMAIN job_posts :
       Cardinality(FormsOf(job_application_forms, j)) = 1
  /\ \A f \in DOMAIN job_application_forms :
       job_application_forms[f].job_post_id \in DOMAIN job_posts

\* every posting the run created or started with but one has been deleted
C8_Witness ==
  /\ last = [op |-> "deleteJob", status |-> 200]
  /\ Cardinality(DOMAIN job_posts) = 1
  /\ nextJobId > 2

\* C9: a successful PATCH /jobs/:id writes each of title, slug, details and
\* description the body carries over the stored value, keeps the value
\* stored before the request for each the body does not carry, and leaves
\* every other posting as it was.
C9_SuppliedFieldsOverwrite ==
  [][\A p \in Procs, title \in PatchJobTitles, slug \in PatchJobSlugs,
        details \in PatchJobDetails, description \in PatchJobDescriptions :
       (/\ PatchJobUpdate(p, title, slug, details, description,
                          Undefined, Undefined, Undefined)
        /\ last'.status = 200
        /\ req[p].id \in DOMAIN job_posts)
         => LET id == req[p].id
                old == job_posts[id]
                new == job_posts'[id]
            IN /\ DOMAIN job_posts' = DOMAIN job_posts
               /\ new.job_title =
                    IF title = Undefined THEN old.job_title ELSE StrText(title)
               /\ new.slug = IF slug = Undefined THEN old.slug ELSE StrText(slug)
               /\ new.details =
                    IF details = Undefined
                      THEN old.details ELSE JSON_stringify(details)
               /\ new.description =
                    IF description = Undefined
                      THEN old.description ELSE JSON_stringify(description)
               /\ \A j \in DOMAIN job_posts \ {id} :
                    job_posts'[j] = job_posts[j]]_vars

\* C9, amended: a successful PATCH /jobs/:id writes title and slug where the
\* body carries them, writes details and description where the body
\* carries them with a truthy value, keeps the value stored before the
\* request for every other column (a details or description carried as ""
\* is kept too), and leaves every other posting as it was.
C9_TruthyFieldsOverwrite ==
  [][\A p \in Procs, title \in PatchJobTitles, slug \in PatchJobSlugs,
        details \in PatchJobDetails, description \in PatchJobDescriptions :
       (/\ PatchJobUpdate(p, title, slug, details, description,
                          Undefined, Undefined, Undefined)
        /\ last'.status = 200
        /\ req[p].id \in DOMAIN job_posts)
         => LET id == req[p].id
                old == job_posts[id]
                new == job_posts'[id]
            IN /\ DOMAIN job_posts' = DOMAIN job_posts
               /\ new.job_title =
                    IF title = Undefined THEN old.job_title ELSE StrText(title)
               /\ new.slug = IF slug = Undefined THEN old.slug ELSE StrText(slug)
               /\ new.details =
                    IF Truthy(details)
                      THEN JSON_stringify(details) ELSE old.details
               /\ new.description =
                    IF Truthy(description)
                      THEN JSON_stringify(description) ELSE old.description
               /\ \A j \in DOMAIN job_posts \ {id} :
                    job_posts'[j] = job_posts[j]]_vars

\* an update wrote title and description of a posting and kept its details
C9_Witness ==
  /\ last = [op |-> "patchJob", status |-> 200]
  /\ \E j \in DOMAIN job_posts :
       /\ job_posts[j].job_title = "b"
       /\ job_posts[j].description = "{\"department\":\"Ops\"}"
       /\ job_posts[j].details = "{}"

\* C10: a successful PATCH /jobs/:id rewrites the form row of the posting:
\* basicFormSchema becomes the schema the body carries, [] where it carries
\* none, and applicationFormSchema the application schema the body carries,
\* {} where it carries none; what was stored before is not kept.
C10_FormRowRewritten ==
  [][\A p \in Procs, title \in PatchJobTitles,
        basicFormSchema \in BasicFormValues,
        applicationFormSchema \in ApplicationFormSchemaValues,
        applicationForm \in ApplicationFormValues :
       (/\ PatchJobUpdate(p, title, Undefined, Undefined, Undefined,
                          basicFormSchema, applicationFormSchema, applicationForm)
        /\ last'.status = 200)
         => /\ FormsOf(job_application_forms', req[p].id) # {}
            /\ \A f \in FormsOf(job_application_forms', req[p].id) :
                 /\ job_application_forms'[f].basicFormSchema =
                      IF basicFormSchema = Undefined
                        THEN "[]" ELSE JSON_stringify(basicFormSchema)
                 /\ job_application_forms'[f].applicationFormSchema =
                      IF applicationFormSchema # Undefined
                        THEN JSON_stringify(applicationFormSchema)
                        ELSE IF applicationForm # Undefined
                          THEN JSON_stringify(applicationForm) ELSE "{}"]_vars

\* an update that carried no schema left the form row of its posting empty
C10_Witness ==
  /\ last = [op |-> "patchJob", status |-> 200]
  /\ \E f \in DOMAIN job_application_forms :
       /\ job_application_forms[f].basicFormSchema = "[]"
       /\ job_application_forms[f].applicationFormSchema = "{}"
       /\ job_posts[job_application_forms[f].job_post_id].job_title = "b"

\* C11: job creation and job update are all-or-nothing: when a statement of
\* the transaction fails (the slug is taken, or the form write fails after
\* the posting write), the request is answered with an error and job_posts
\* and job_application_forms hold the rows they held before the request.
C11_JobTransactionAllOrNothing ==
  [][/\ \A title \in AddJobTitles, slug \in AddJobSlugs,
           details \in AddJobDetails :
          (/\ \/ AddJob(title, slug, details, Undefined, Undefined, Undefined,
                        Undefined)
              \/ AddJobFormInsertFails(title, slug, details, Undefined)
           /\ last'.status # 201)
            => UNCHANGED <<job_posts, job_application_forms>>
     /\ \A p \in Procs :
          (req[p].op = "patchJob" /\ req'[p] = Idle /\ last'.status # 200)
            => UNCHANGED <<job_posts, job_application_forms>>]_vars

\* an update of a stored posting was answered 500
C11_Witness ==
  /\ last = [op |-> "patchJob", status |-> 500]
  /\ DOMAIN job_posts # {}

(* The views next to intake and the stage handler, one request at a time. *)
ViewStatusValues == {"Shortlisted", "shortlisted", "Rejected", "Hired"}

ViewsNext ==
  \/ \E p \in Procs : AllIdle /\ IntakeUpload(p, TRUE)
  \/ \E p \in Procs : IntakeSubmit(p, 1, BasicNames, Absent)
  \/ \E p \in Procs, id \in ApplicantIds : AllIdle /\ PatchStageSelect(p, id)
  \/ \E p \in Procs : PatchStageApplicant(p)
  \/ \E p \in Procs : PatchStageInsert(p)
  \/ \E p \in Procs, status \in ViewStatusValues :
       PatchStageUpdate(p, Absent, status, Absent)
  \/ \E p \in Procs : PatchStageFetch(p)
  \/ AllIdle /\ ListShortlisted
  \/ AllIdle /\ ListRejected
  \/ AllIdle /\ ListHired
  \/ AllIdle /\ ListApplicants

SpecViews == Init /\ [][ViewsNext]_vars

\* the entries whose status is exactly the string s
EntriesWithStatus(s) ==
  {e \in DOMAIN shortlisted_candidates : shortlisted_candidates[e].status = s}

\* C12: each of the shortlisted / rejected / hired views answers with
\* exactly the entries whose status is the string "Shortlisted" /
\* "Rejected" / "Hired", compared case-sensitively, and GET /applicants
\* answers with every applicant, whatever the status of its entry.
C12_ViewsFilterByExactStatus ==
  [][/\ ListShortlisted =>
          (last'.status = 200 /\ last'.rows = EntriesWithStatus("Shortlisted"))
     /\ ListRejected =>
          (last'.status = 200 /\ last'.rows = EntriesWithStatus("Rejected"))
     /\ ListHired =>
          (last'.status = 200 /\ last'.rows = EntriesWithStatus("Hired"))
     /\ ListApplicants =>
          (last'.status = 200 /\ last'.rows = DOMAIN applicants)]_vars

\* C13: a stage request for an id that no applicant has is answered 404
\* and leaves the store as it was.
C13_MissingApplicantIs404 ==
  [][\A p \in Procs :
       (StageAnswered(p) /\ req[p].id \notin DOMAIN applicants)
         => (last'.status = 404 /\ UNCHANGED store)]_vars

\* C14: with one request at a time (so no concurrent delete), a stage
\* request for an existing applicant whose body carries at least one of
\* stage, status and note (a body that carries none is the only one
\* answered 400) is answered 200, whether the applicant had an entry or not.
C14_StageUpdateSucceeds ==
  [][\A p \in Procs :
       (/\ StageAnswered(p)
        /\ req[p].id \in DOMAIN applicants
        /\ last'.status # 400)
         => last'.status = 200]_vars

(* The stage handler, one request at a time, with submissions to the      *)
(* first posting.                                                          *)
FrameNext ==
  \/ \E p \in Procs : AllIdle /\ IntakeUpload(p, TRUE)
  \/ \E p \in Procs : IntakeSubmit(p, 1, BasicNames, Absent)
  \/ \E p \in Procs, id \in ApplicantIds : AllIdle /\ PatchStageSelect(p, id)
  \/ \E p \in Procs : PatchStageApplicant(p)
  \/ \E p \in Procs : PatchStageInsert(p)
  \/ \E p \in Procs, stageId \in StageValues, status \in StatusValues,
        note \in NoteValues : PatchStageUpdate(p, stageId, status, note)
  \/ \E p \in Procs : PatchStageFetch(p)

SpecFrame == Init /\ [][FrameNext]_vars

\* C15: the UPDATE of a stage request changes, in the entries of its
\* applicant, only those of stage, status and note that the body carries:
\* the fields the body does not carry, rating, the contact fields and the
\* references keep their values, no entry is added or removed, the entries
\* of other applicants and the applicants table are unchanged.
C15_StageUpdateFrame ==
  [][\A p \in Procs, stageId \in StageValues, status \in StatusValues,
        note \in NoteValues :
       PatchStageUpdate(p, stageId, status, note) =>
         /\ applicants' = applicants
         /\ DOMAIN shortlisted_candidates' = DOMAIN shortlisted_candidates
         /\ \A e \in DOMAIN shortlisted_candidates :
              LET old == shortlisted_candidates[e]
                  new == shortlisted_candidates'[e]
              IN IF old.applicant_id = req[p].id
                   THEN /\ stageId = Absent => new.stage = old.stage
                        /\ status = Absent => new.status = old.status
                        /\ note = Absent => new.note = old.note
                        /\ new.rating = old.rating
                        /\ new.full_name = old.full_name
                        /\ new.email = old.email
                        /\ new.phone = old.phone
                        /\ new.job_post_id = old.job_post_id
                        /\ new.applicant_id = old.applicant_id
                   ELSE new = old]_vars

\* a request answered 200 set the status of an entry and kept its stage
\* and its note
C15_Witness ==
  /\ last = [op |-> "patchStage", status |-> 200]
  /\ \E e \in DOMAIN shortlisted_candidates :
       /\ shortlisted_candidates[e].status = "Shortlisted"
       /\ shortlisted_candidates[e].stage = "Application Screening"
       /\ shortlisted_candidates[e].note = NULL

(* The stage handler, one request at a time, over two stages and two      *)
(* statuses.                                                               *)
TransitionStages == {Absent, "Application Screening", "Interview"}
TransitionStatuses == {Absent, "New Application", "Hired"}

TransitionsNext ==
  \/ \E p \in Procs : AllIdle /\ IntakeUpload(p, TRUE)
  \/ \E p \in Procs : IntakeSubmit(p, 1, BasicNames, Absent)
  \/ \E p \in Procs, id \in ApplicantIds : AllIdle /\ PatchStageSelect(p, id)
  \/ \E p \in Procs : PatchStageApplicant(p)
  \/ \E p \in Procs : PatchStageInsert(p)
  \/ \E p \in Procs, stageId \in TransitionStages,
        status \in TransitionStatuses :
       PatchStageUpdate(p, stageId, status, Absent)
  \/ \E p \in Procs : PatchStageFetch(p)

SpecTransitions == Init /\ [][TransitionsNext]_vars

\* C16: there is no transition table: whatever stage and status the entries
\* of an applicant hold, the UPDATE of a stage request can write any stage
\* and any status, each with or without the other, and the entries then
\* hold what the body carried (status "Hired" can be followed by
\* "New Application").
C16_NoTransitionTable ==
  \A p \in Procs :
    (req[p].op = "patchStage" /\ req[p].pc = "update") =>
      \A stageId \in TransitionStages, status \in TransitionStatuses :
        (stageId # Absent \/ status # Absent) =>
          ENABLED (/\ PatchStageUpdate(p, stageId, status, Absent)
                   /\ \A e \in EntriesOf(shortlisted_candidates, req[p].id) :
                        /\ shortlisted_candidates'[e].stage =
                             IF stageId = Absent
                               THEN shortlisted_candidates[e].stage ELSE stageId
                        /\ shortlisted_candidates'[e].status =
                             IF status = Absent
                               THEN shortlisted_candidates[e].status ELSE status)

\* a stage request is about to update an entry that is "Hired" at stage
\* "Interview"
C16_Witness ==
  \E p \in Procs :
    /\ req[p].op = "patchStage"
    /\ req[p].pc = "update"
    /\ \E e \in EntriesOf(shortlisted_candidates, req[p].id) :
         /\ shortlisted_candidates[e].status = "Hired"
         /\ shortlisted_candidates[e].stage = "Interview"

(* Accounts: signups in flight together, logins, and the clock.            *)
AccountsInit == Init /\ NoApplicants /\ contactCols = FALSE /\ job_posts = NoRows

SignupNames == {Absent, "Al"}
Emails == {"a@x.com", "b@x.com"}
Passwords == {PwGood, PwOther, PwShort, PwNoSymbol, PwDash}

AccountsNext ==
  \/ \E p \in Procs, full_name \in SignupNames, email \in Emails, password \in Passwords : SignupSelect(p, full_name, email, password)
  \/ \E p \in Procs : SignupInsert(p)
  \/ \E email \in Emails, password \in Passwords : Login(email, password)
  \/ Tick

SpecAccounts == AccountsInit /\ [][AccountsNext]_vars

(* Accounts, one request at a time.                                        *)
AccountsSeqNext ==
  \/ AllIdle /\ \E p \in Procs, full_name \in SignupNames, email \in Emails, password \in Passwords : SignupSelect(p, full_name, email, password)
  \/ \E p \in Procs : SignupInsert(p)
  \/ AllIdle /\ \E email \in Emails, password \in Passwords : Login(email, password)
  \/ Tick

SpecAccountsSeq == AccountsInit /\ [][AccountsSeqNext]_vars

\* the password policy as stated: at least 8 characters, at least one
\* lowercase, one uppercase, one digit and one symbol of the fixed set
PasswordPolicy(password) ==
  /\ Len(password) >= 8
  /\ \E i \in 1..Len(password) : password[i] \in LowerCase
  /\ \E i \in 1..Len(password) : password[i] \in UpperCase
  /\ \E i \in 1..Len(password) : password[i] \in Digit
  /\ \E i \in 1..Len(password) : password[i] \in Symbol

\* every character is a letter, a digit or a symbol of the fixed set
OnlyPolicyCharacters(password) ==
  \A i \in 1..Len(password) :
    password[i] \in LowerCase \cup UpperCase \cup Digit \cup Symbol

\* the role a token carries for a stored role
RoleInToken(role) == IF role \in {NULL, "", " "} THEN "admin" ELSE role

\* C18: login answers 404 when no account has the email and 401 or 403 when
\* the password does not match the stored hash, issuing no token in either
\* case; on success the token carries the account's id, uuid and role
\* ("admin" for an absent or blank role) and verifies for exactly 7 days.
C18_LoginOutcomes ==
  [][\A email \in Emails, password \in Passwords :
       Login(email, password) =>
         LET ids == AdminsWithEmail(admin_users, email)
         IN IF ids = {}
              THEN last' = [op |-> "login", status |-> 404]
              ELSE IF \A a \in ids : admin_users[a].password # bcrypt_hash(password)
                THEN /\ last'.status \in {401, 403}
                     /\ DOMAIN last' = {"op", "status"}
                ELSE /\ last'.status = 200
                     /\ \E a \in ids :
                          \A t \in now..(now + SevenDays + 1) :
                            jwt_verify(last'.token, JWT_SECRET, t)
                              = IF t < now + 7
                                  THEN [id |-> a, uuid |-> admin_users[a].uuid,
                                        role |-> RoleInToken(admin_users[a].role)]
                                  ELSE JwtError]_vars

\* a signup is accepted: the request goes on to its INSERT
SignupAccepted(p, full_name, email, password) ==
  /\ req' = [req EXCEPT ![p] = [op |-> "signup", full_name |-> full_name,
                                email |-> email, password |-> password]]
  /\ UNCHANGED last

\* the INSERT of slot p creates the account, and a login with the email and
\* password of that signup then yields a token that verifies to its id
SignupThenLogin(p) ==
  /\ last' = [op |-> "signup", status |-> 200]
  /\ DOMAIN admin_users' = DOMAIN admin_users \cup {nextAdminId}
  /\ admin_users'[nextAdminId].email = req[p].email
  /\ LET answer == LoginResponse(admin_users', req[p].email, req[p].password, now')
     IN /\ answer.status = 200
        /\ jwt_verify(answer.token, JWT_SECRET, now').id = nextAdminId

C20_RejectedSignupChangesNothing ==
  [][\A p \in Procs, full_name \in SignupNames, email \in Emails, password \in Passwords :
       (/\ SignupSelect(p, full_name, email, password)
        /\ (~PasswordPolicy(password) \/ AdminsWithEmail(admin_users, email) # {}))
         => /\ last'.op = "signup"
            /\ last'.status \in (IF ~PasswordPolicy(password) THEN {400} ELSE {400, 409})
            /\ UNCHANGED <<accounts, req>>]_vars

\* a signup was refused while an account is registered
C20_Witness ==
  /\ last = [op |-> "signup", status |-> 400]
  /\ admin_users # NoRows
  /\ AllIdle

(* The protected routes, one request at a time, under every kind of        *)
(* Authorization header.                                                   *)
\* what a token issued for account 1 carries, its role stored blank or not
PayloadOf(role) == [id |-> 1, uuid |-> UuidOf(1), role |-> role]
Headers ==
  {NoHeader, BasicHeader, Bearer(MalformedToken),
   Bearer(jwt_sign(PayloadOf("admin"), JWT_SECRET, now)),
   Bearer(jwt_sign(PayloadOf(""), JWT_SECRET, now)),
   Bearer(jwt_sign(PayloadOf("admin"), "forged", now)),
   Bearer(jwt_sign(PayloadOf("admin"), JWT_SECRET, now - SevenDays))}

\* a request to a protected route arrives with the header (the requests
\* that name a row name row 1)
ProtectedRequest(header) ==
  \/ Protected("listUsers", header, ListUsers)
  \/ \E p \in Procs : Protected("addUser", header, AddUserSelect(p, "Al", "a@x.com", "hr"))
  \/ Protected("deleteUser", header, DeleteUser(1))
  \/ Protected("updateUser", header, UpdateUser(1, Absent, "b@x.com"))
  \/ \E p \in Procs : Protected("updatePassword", header, UpdatePasswordSelect(p, 1, defaultPassword, PwGood))
  \/ Protected("addJob", header, AddJob(Str(1), Str(2), Undefined, Undefined, Undefined, Undefined, Undefined))
  \/ \E p \in Procs : Protected("patchJob", header, PatchJobSelect(p, 1))
  \/ \E p \in Procs : Protected("deleteJob", header, DeleteJobSelect(p, 1))
  \/ Protected("listApplicants", header, ListApplicants)
  \/ Protected("listShortlisted", header, ListShortlisted)
  \/ Protected("listRejected", header, ListRejected)
  \/ Protected("listHired", header, ListHired)
  \/ \E p \in Procs : Protected("patchStage", header, PatchStageSelect(p, 1))
  \/ \E p \in Procs : Protected("deleteApplicant", header, DeleteApplicantSelect(p, 1))

AuthNext ==
  \/ \E header \in Headers : AllIdle /\ ProtectedRequest(header)
  \/ \E p \in Procs : AddUserInsert(p)
  \/ \E p \in Procs : UpdatePasswordUpdate(p)
  \/ \E p \in Procs : PatchJobUpdate(p, Str(2), Undefined, Undefined, Undefined, Undefined, Undefined, Undefined)
  \/ \E p \in Procs : DeleteJobDelete(p)
  \/ \E p \in Procs : PatchStageApplicant(p)
  \/ \E p \in Procs : PatchStageInsert(p)
  \/ \E p \in Procs : PatchStageUpdate(p, Absent, "Hired", Absent)
  \/ \E p \in Procs : PatchStageFetch(p)
  \/ \E p \in Procs : DeleteApplicantDelete(p)

\* a start state with one posting and its legacy applicant, on a table that
\* has the contact columns
AuthInit == Init /\ contactCols = TRUE /\ applicants # NoRows /\ nextJobId = 2

SpecAuth == AuthInit /\ [][AuthNext]_vars

\* the header is "Bearer " followed by a token signed with the server's
\* secret whose validity has not ended
ValidBearer(header) ==
  /\ header.scheme = "Bearer"
  /\ header.token.key = JWT_SECRET
  /\ now < header.token.exp

\* C17: a request to a protected route whose Authorization header is missing,
\* does not start with "Bearer ", or carries an invalid or expired token is
\* answered 401 (or 403) and changes no stored row, no file and starts no
\* handler; with a valid token the identity attached is the id, uuid and
\* role of the token ("admin" for a blank role).
C17_ProtectedRoutesNeedValidToken ==
  [][\A header \in Headers :
       IF ValidBearer(header)
         THEN authenticateUser(header, now)
                = [id |-> header.token.payload.id,
                   uuid |-> header.token.payload.uuid,
                   role |-> RoleInToken(header.token.payload.role)]
         ELSE ProtectedRequest(header) =>
                /\ last'.status \in {401, 403}
                /\ DOMAIN last' = {"op", "status"}
                /\ UNCHANGED <<store, accounts, disk, req>>]_vars

\* a request was refused by the middleware after requests with a valid token
\* had created an account and a posting
C17_Witness ==
  /\ last = [op |-> "deleteUser", status |-> 401]
  /\ admin_users # NoRows
  /\ nextJobId > 1

(* Creating and renaming accounts, the requests in flight together.        *)
EmailsNext ==
  \/ \E p \in Procs, email \in Emails : SignupSelect(p, "Al", email, PwGood)
  \/ \E p \in Procs : SignupInsert(p)
  \/ \E p \in Procs, email \in Emails : AddUserSelect(p, "Al", email, "hr")
  \/ \E p \in Procs : AddUserInsert(p)
  \/ \E id \in 1..MaxAdmins, email \in Emails : UpdateUser(id, Absent, email)

SpecEmails == AccountsInit /\ [][EmailsNext]_vars

\* no two accounts share an email
NoSharedEmail(admins) ==
  \A a, b \in DOMAIN admins : admins[a].email = admins[b].email => a = b

\* C21: no two accounts ever share an email, whatever the interleaving of
\* signup, add-user and update-user requests, and a request that loses to
\* the email of another account (answered 500 or 409) changes no account.
C21_EmailsStayUnique ==
  /\ []NoSharedEmail(admin_users)
  /\ [][last' # last /\ last'.status \in {500, 409} => UNCHANGED accounts]_vars

\* two creations for the same email both passed the check; one created the
\* account and the other was refused by the index
C21_Witness ==
  /\ last.status = 500
  /\ AllIdle
  /\ Cardinality(DOMAIN admin_users) = 1

(* Changing passwords next to the creation and deletion of accounts, the   *)
(* requests in flight together.                                            *)
PasswordInputs == {Absent, PwGood, PwOther}
NewPasswordInputs == {Absent, PwOther}

PasswordsNext ==
  \/ \E p \in Procs, email \in Emails : SignupSelect(p, "Al", email, PwGood)
  \/ \E p \in Procs : SignupInsert(p)
  \/ \E p \in Procs, id \in 1..MaxAdmins, currentPassword \in PasswordInputs, newPassword \in NewPasswordInputs : UpdatePasswordSelect(p, id, currentPassword, newPassword)
  \/ \E p \in Procs : UpdatePasswordUpdate(p)
  \/ \E id \in 1..MaxAdmins : DeleteUser(id)

SpecPasswords == AccountsInit /\ [][PasswordsNext]_vars

\* the accounts whose stored hash differs after the step
HashChanged ==
  {a \in DOMAIN admin_users \cap DOMAIN admin_users' :
     admin_users'[a].password # admin_users[a].password}

\* C22: an update-password request whose current or new password is missing
\* is answered 400, one for an account that does not exist 404, one whose
\* current password does not match the stored hash 401, and none of them
\* changes an account; a stored hash changes only in the UPDATE of a request
\* whose current password matched, for the account it names, to the hash of
\* its new password.
C22_HashChangesOnlyAfterMatch ==
  [][/\ \A p \in Procs, id \in 1..MaxAdmins, currentPassword \in PasswordInputs, newPassword \in NewPasswordInputs :
          UpdatePasswordSelect(p, id, currentPassword, newPassword) =>
            IF currentPassword = Absent \/ newPassword = Absent
              THEN last'.status = 400 /\ UNCHANGED <<accounts, req>>
              ELSE IF id \notin DOMAIN admin_users
                THEN last'.status = 404 /\ UNCHANGED <<accounts, req>>
                ELSE IF admin_users[id].password # bcrypt_hash(currentPassword)
                  THEN last'.status = 401 /\ UNCHANGED <<accounts, req>>
                  ELSE req'[p].op = "updatePassword" /\ UNCHANGED accounts
     /\ \A a \in HashChanged :
          \E p \in Procs :
            /\ req[p].op = "updatePassword"
            /\ req[p].id = a
            /\ req'[p] = Idle
            /\ admin_users'[a].password = bcrypt_hash(req[p].newPassword)]_vars

\* a request with a wrong current password was refused and the account
\* keeps the hash of the password it was created with
C22_Witness ==
  /\ last = [op |-> "updatePassword", status |-> 401]
  /\ \E a \in DOMAIN admin_users : admin_users[a].password = bcrypt_hash(PwGood)

(* The handlers that check a connection out of the pool, where             *)
(* beginTransaction may fail.                                              *)
PoolNext ==
  \/ AddJob(Str(1), Str(2), Undefined, Undefined, Undefined, Undefined, Undefined)
  \/ \E p \in Procs : PatchJobSelect(p, 1)
  \/ \E p \in Procs : PatchJobUpdate(p, Str(2), Undefined, Undefined, Undefined, Undefined, Undefined, Undefined)
  \/ \E p \in Procs : IntakeUpload(p, TRUE)
  \/ \E p \in Procs : IntakeSubmit(p, 1, BasicNames, Absent)
  \/ \E p \in Procs : IntakeBeginFails(p)
  \/ \E p \in Procs, id \in ApplicantIds : DeleteApplicantSelect(p, id)
  \/ \E p \in Procs : DeleteApplicantDelete(p)
  \/ \E op \in {"addJob", "patchJob"} : BeginTransactionFails(op)

SpecPool == JobsInit /\ [][PoolNext]_vars

\* C23: a connection checked out by a request is released on every path of
\* the request: when no request is in flight, no connection is checked out.
C23_ConnectionsReleased == AllIdle => checkedOut = 0

(* Deleting applicants next to intake, the requests in flight together.    *)
DeleteNext ==
  \/ \E p \in Procs : IntakeUpload(p, TRUE)
  \/ \E p \in Procs : IntakeSubmit(p, 1, BasicNames, Absent)
  \/ \E p \in Procs, id \in ApplicantIds : DeleteApplicantSelect(p, id)
  \/ \E p \in Procs : DeleteApplicantDelete(p)

SpecDelete == Init /\ [][DeleteNext]_vars

\* C24: the DELETE of an applicant is answered 200 and leaves neither the
\* applicant's row nor an entry of the applicant nor its resume file, every
\* other applicant, entry and file being as before; a DELETE for an id no
\* applicant has is answered 404 and changes nothing.
C24_DeleteApplicantRemovesAllOfIt ==
  [][/\ \A p \in Procs :
          DeleteApplicantDelete(p) =>
            LET id == req[p].id
            IN /\ last' = [op |-> "deleteApplicant", status |-> 200]
               /\ id \notin DOMAIN applicants'
               /\ \A e \in DOMAIN shortlisted_candidates' :
                    shortlisted_candidates'[e].applicant_id # id
               /\ req[p].resumePath \notin files'
               /\ \A a \in DOMAIN applicants \ {id} :
                    a \in DOMAIN applicants' /\ applicants'[a] = applicants[a]
               /\ \A e \in DOMAIN shortlisted_candidates :
                    shortlisted_candidates[e].applicant_id # id =>
                      /\ e \in DOMAIN shortlisted_candidates'
                      /\ shortlisted_candidates'[e] = shortlisted_candidates[e]
               /\ files \ {req[p].resumePath} \subseteq files'
     /\ \A p \in Procs, id \in ApplicantIds :
          DeleteApplicantSelect(p, id) /\ id \notin DOMAIN applicants =>
            /\ last' = [op |-> "deleteApplicant", status |-> 404]
            /\ UNCHANGED <<store, disk, req>>]_vars

\* an applicant that came in through intake was deleted while another
\* applicant, its entry and its file are still there
C24_Witness ==
  /\ last = [op |-> "deleteApplicant", status |-> 200]
  /\ nextShortlistId > 1
  /\ \E a \in DOMAIN applicants :
       /\ applicants[a].resume_path \in files
       /\ \E e \in DOMAIN shortlisted_candidates :
            shortlisted_candidates[e].applicant_id = a
  /\ Cardinality(DOMAIN applicants) < nextApplicantId - 1

\* C25: when a job create or a job update succeeds and its body carries the
\* application-step schema under one of the names applicationFormSchema and
\* applicationForm, the value stored in the form row of the posting and the
\* applicationFormSchema of the response both equal the value supplied.
C25_SchemaNormalizedUnderEitherName ==
  [][/\ \A slug \in {Str(1), Str(2)}, basicFormSchema \in BasicFormValues, applicationForm \in ApplicationFormValues, applicationFormSchema \in ApplicationFormSchemaValues :
          (/\ AddJob(Str(1), slug, Undefined, Undefined, basicFormSchema, applicationForm, applicationFormSchema)
           /\ last'.status = 201
           /\ Truthy(applicationForm) # Truthy(applicationFormSchema))
            => LET supplied == IF Truthy(applicationForm) THEN applicationForm
                               ELSE applicationFormSchema
               IN /\ JSON_parse(job_application_forms'[nextFormId].applicationFormSchema) = supplied
                  /\ AddJobResponseSchema(applicationFormSchema, applicationForm) = supplied
     /\ \A p \in Procs, title \in PatchJobTitles, basicFormSchema \in BasicFormValues, applicationFormSchema \in ApplicationFormSchemaValues, applicationForm \in ApplicationFormValues :
          (/\ PatchJobUpdate(p, title, Undefined, Undefined, Undefined, basicFormSchema, applicationFormSchema, applicationForm)
           /\ last'.status = 200
           /\ Truthy(applicationForm) # Truthy(applicationFormSchema))
            => LET supplied == IF Truthy(applicationForm) THEN applicationForm
                               ELSE applicationFormSchema
               IN /\ \A f \in DOMAIN job_application_forms' :
                       job_application_forms'[f].job_post_id = req[p].id =>
                         JSON_parse(job_application_forms'[f].applicationFormSchema) = supplied
                  /\ PatchJobResponseSchema(applicationFormSchema, applicationForm) = supplied]_vars

(* Messages sent through the WhatsApp Cloud API.                           *)
Recipients == {<<"+", "9", "1", " ", "5", "5", "5">>, <<"9", "1", "5", "5", "5">>, <<"9", "1", "7", "7", "7">>}
Messages == {"Shortlisted", "Rejected", "Hired"}

WhatsAppNext ==
  \E to \in Recipients, message \in Messages, configured \in BOOLEAN, delivered \in BOOLEAN :
    sendWhatsAppMessage(to, message, configured, delivered)

SpecWhatsApp == AccountsInit /\ [][WhatsAppNext]_vars

\* the characters of a number without "+" and spaces, as one text
RECURSIVE Cleaned(_)
Cleaned(to) ==
  IF to = <<>> THEN ""
  ELSE IF Head(to) \in {"+", " "} THEN Cleaned(Tail(to))
  ELSE Head(to) \o Cleaned(Tail(to))

\* C26: every payload sendWhatsAppMessage(to, message) writes names the
\* cleaned `to` argument as its recipient and the message as its text.
C26_MessageGoesToRecipient ==
  [][\A to \in Recipients, message \in Messages, delivered \in BOOLEAN :
       sendWhatsAppMessage(to, message, TRUE, delivered) =>
         /\ outbox'[Len(outbox')].to = Cleaned(to)
         /\ outbox'[Len(outbox')].body = message]_vars

(* Stage requests whose body carries none of stageId, status and note,     *)
(* next to intake.                                                         *)
NoFieldsNext ==
  \/ \E p \in Procs : AllIdle /\ IntakeUpload(p, TRUE)
  \/ \E p \in Procs : IntakeSubmit(p, 1, BasicNames, Absent)
  \/ \E p \in Procs, id \in ApplicantIds : AllIdle /\ PatchStageSelect(p, id)
  \/ \E p \in Procs : PatchStageApplicant(p)
  \/ \E p \in Procs : PatchStageInsert(p)
  \/ \E p \in Procs : PatchStageUpdate(p, Absent, Absent, Absent)

SpecNoFields == Init /\ [][NoFieldsNext]_vars

\* C27: a stage request that supplies none of stage, status and note changes
\* no row in any of its steps, and the answer it gets for an applicant that
\* exists is 400 (404 or 400 for one that does not).
C27_NoFieldsChangesNothing ==
  [][\A p \in Procs :
       req[p].op = "patchStage" /\ req'[p] # req[p] =>
         /\ UNCHANGED store
         /\ req'[p] = Idle =>
              last'.status \in (IF req[p].id \in DOMAIN applicants
                                  THEN {400} ELSE {400, 404})]_vars

(* PATCH /jobs/:id requests on one posting, in flight together, each body  *)
(* carrying one field.                                                     *)
RaceInit == JobsInit /\ nextJobId = 2

\* the bodies: only a title, only a slug, only details
OneFieldBodies ==
  {[title |-> Str(2), slug |-> Undefined, details |-> Undefined],
   [title |-> Undefined, slug |-> Str(2), details |-> Undefined],
   [title |-> Undefined, slug |-> Undefined, details |-> Obj(1)]}

RaceNext ==
  \/ \E p \in Procs : PatchJobSelect(p, 1)
  \/ \E p \in Procs, body \in OneFieldBodies :
       PatchJobUpdate(p, body.title, body.slug, body.details, Undefined,
                      Undefined, Undefined, Undefined)

SpecRace == RaceInit /\ [][RaceNext]_vars

\* C28: concurrent updates of one posting commit as if run one after the
\* other: an update that commits changes, in the row as it is when it
\* commits, only the fields its body supplies, so that a title changed by
\* one request and a slug changed by another are both present afterwards.
C28_ConcurrentUpdatesSerialize ==
  [][\A p \in Procs, body \in OneFieldBodies :
       (/\ PatchJobUpdate(p, body.title, body.slug, body.details, Undefined,
                          Undefined, Undefined, Undefined)
        /\ last'.status = 200)
         => /\ body.title = Undefined => job_posts'[1].job_title = job_posts[1].job_title
            /\ body.slug = Undefined => job_posts'[1].slug = job_posts[1].slug
            /\ body.details = Undefined => job_posts'[1].details = job_posts[1].details]_vars

(* A client logs in and keeps the token, then calls the protected routes   *)
(* with it while days pass and the accounts change.                        *)
\* POST /login by a client that has no token yet: it keeps the token of a
\* 200 answer
ClientLogin(email, password) ==
  /\ held = NoToken
  /\ last' = LoginResponse(admin_users, email, password, now)
  /\ held' = IF last'.status = 200 THEN last'.token ELSE held
  /\ UNCHANGED <<contactCols, outbox, checkedOut, accounts, now, store, disk, req>>

\* a request to a protected route that carries the header; the password
\* change names the password the account was signed up with
TokenRequest(header) ==
  \/ ProtectedRequest(header)
  \/ \E p \in Procs : Protected("updatePassword", header, UpdatePasswordSelect(p, 1, PwGood, PwOther))

TokensNext ==
  \/ \E p \in Procs : AllIdle /\ SignupSelect(p, "Al", "a@x.com", PwGood)
  \/ \E p \in Procs : SignupInsert(p)
  \/ AllIdle /\ ClientLogin("a@x.com", PwGood)
  \/ AllIdle /\ Tick
  \/ AllIdle /\ held # NoToken /\ TokenRequest(Bearer(held))
  \/ \E p \in Procs : AddUserInsert(p)
  \/ \E p \in Procs : UpdatePasswordUpdate(p)
  \/ \E p \in Procs : PatchJobUpdate(p, Str(2), Undefined, Undefined, Undefined, Undefined, Undefined, Undefined)
  \/ \E p \in Procs : DeleteJobDelete(p)
  \/ \E p \in Procs : PatchStageApplicant(p)

SpecTokens == AccountsInit /\ [][TokensNext]_vars

\* the middleware's refusal: 401 and nothing else changes
Refused ==
  /\ last'.status = 401
  /\ DOMAIN last' = {"op", "status"}
  /\ UNCHANGED <<store, accounts, disk, req>>

\* the account a token was issued for is gone, or its password is no longer
\* the one it logged in with
AccountChanged(token) ==
  \/ token.payload.id \notin DOMAIN admin_users
  \/ ~bcrypt_compare(PwGood, admin_users[token.payload.id].password)

\* C29: token verification depends only on the token's signature and expiry,
\* never on the stored accounts: the token a login issued is accepted by
\* every protected route, also after its account was deleted or its password
\* changed, while its 7 days last, and is refused by every route afterwards.
C29_TokenOutlivesItsAccount ==
  /\ [](held # NoToken =>
          (authenticateUser(Bearer(held), now) # NoUser) = (now < held.exp))
  /\ [][TokenRequest(Bearer(held)) =>
          IF now < held.exp
            THEN last' # last => last'.status # 401 \/ last'.op = "updatePassword"
            ELSE Refused]_vars

\* the kept token was accepted by a route after its account had been deleted
\* or its password changed
C29_Witness ==
  /\ held # NoToken
  /\ AccountChanged(held)
  /\ now < held.exp
  /\ last = [op |-> "listUsers", status |-> 200, rows |-> DOMAIN admin_users]

(* Intake, stage update, applicant delete and job delete in flight         *)
(* together.                                                               *)
IntegrityNext ==
  \/ \E p \in Procs : IntakeUpload(p, TRUE)
  \/ \E p \in Procs : IntakeSubmit(p, 1, BasicNames, Absent)
  \/ \E p \in Procs : PatchStageSelect(p, 1)
  \/ \E p \in Procs : PatchStageApplicant(p)
  \/ \E p \in Procs : PatchStageInsert(p)
  \/ \E p \in Procs : PatchStageUpdate(p, Absent, "Hired", Absent)
  \/ \E p \in Procs : PatchStageFetch(p)
  \/ \E p \in Procs, id \in ApplicantIds : DeleteApplicantSelect(p, id)
  \/ \E p \in Procs : DeleteApplicantDelete(p)
  \/ \E p \in Procs : DeleteJobSelect(p, 1)
  \/ \E p \in Procs : DeleteJobDelete(p)

\* a start state with one posting and its legacy applicant, on a table that
\* has the contact columns the stage handler reads
IntegrityInit == Init /\ contactCols = TRUE /\ applicants # NoRows /\ nextJobId = 2

SpecIntegrity == IntegrityInit /\ [][IntegrityNext]_vars

\* every entry names an applicant and a posting that exist, every applicant
\* names a posting that exists
ReferentialIntegrity ==
  /\ \A e \in DOMAIN shortlisted_candidates :
       /\ shortlisted_candidates[e].applicant_id \in DOMAIN applicants
       /\ shortlisted_candidates[e].job_post_id \in DOMAIN job_posts
  /\ \A a \in DOMAIN applicants : applicants[a].job_id \in DOMAIN job_posts

\* C30: under any interleaving of intake, stage update, applicant delete and
\* job delete every entry references an existing applicant and an existing
\* posting and every applicant an existing posting; an intake or a lazy
\* entry creation that targets a posting or an applicant that does not exist
\* (any more) creates no row.
C30_ReferentialIntegrity ==
  /\ []ReferentialIntegrity
  /\ [][\A p \in Procs :
          /\ (IntakeSubmit(p, 1, BasicNames, Absent)
                /\ 1 \notin DOMAIN job_posts) => UNCHANGED store
          /\ (PatchStageInsert(p)
                /\ (\/ req[p].id \notin DOMAIN applicants
                    \/ req[p].applicant.job_id \notin DOMAIN job_posts))
               => UNCHANGED store]_vars

\* the lazy creation of the legacy applicant's entry was refused: the
\* applicant had been read and was deleted before the INSERT ran
C30_Witness ==
  /\ contactCols
  /\ last = [op |-> "patchStage", status |-> 500]
  /\ applicants = NoRows
  /\ nextApplicantId = 2
  /\ nextShortlistId = 1

====
